---------------------------- MODULE Spec2Model ----------------------------
(***************************************************************************)
(* Model of the PRN manager (src/app.py): the stage normaliser, the        *)
(* placeholder engine, the variable store and the artifact registry, with  *)
(* the SQLite store, the upload folder and the wall clock as shared state  *)
(* and one request slot per concurrently served HTTP request.              *)
(*                                                                         *)
(* Text is a sequence of one-character strings.  A file name is text, so   *)
(* that a name chosen by a user can coincide with a generated one.  Each   *)
(* specification below runs the requests of one part of the program.       *)
(***************************************************************************)
EXTENDS Integers, Sequences, FiniteSets, TLC

(* ------------------------------ bounds -------------------------------- *)
\* requests served at the same time
MaxReq == 2
\* requests started in one run of each specification
MaxStoreOps == 3
MaxUploadOps == 3
MaxFillOps == 2
MaxRetryOps == 3
MaxStageOps == 2
MaxProductOps == 3
MaxScopeOps == 3
MaxSameOps == 4
MaxFolderOps == 3
\* the clock runs over seconds 0..MaxSec, milliseconds 0..MaxMs of each
MaxSec == 1
MaxMs == 1

(* ------------------------- program constants -------------------------- *)
MsPerSec == 1000
ALLOWED_STAGES == {"Raw", "SFG", "FG"}

(* ------------------------------- text --------------------------------- *)
UpperCase ==
  <<"A","B","C","D","E","F","G","H","I","J","K","L","M",
    "N","O","P","Q","R","S","T","U","V","W","X","Y","Z">>
LowerCase ==
  <<"a","b","c","d","e","f","g","h","i","j","k","l","m",
    "n","o","p","q","r","s","t","u","v","w","x","y","z">>

Lower(s) ==
  LET LowerChar(c) ==
        IF \E i \in 1..26 : UpperCase[i] = c
        THEN LowerCase[CHOOSE i \in 1..26 : UpperCase[i] = c]
        ELSE c
  IN [i \in 1..Len(s) |-> LowerChar(s[i])]

IsSpace(c) == c \in {" ", "\t", "\n", "\r", "\f", "<VT>"}

RECURSIVE LStrip(_)
LStrip(s) == IF s # <<>> /\ IsSpace(Head(s)) THEN LStrip(Tail(s)) ELSE s

RECURSIVE RStrip(_)
RStrip(s) ==
  IF s # <<>> /\ IsSpace(s[Len(s)]) THEN RStrip(SubSeq(s, 1, Len(s) - 1)) ELSE s

Strip(s) == RStrip(LStrip(s))

(* --------------------------- stage normaliser ------------------------- *)
RawAliases ==
  { <<"r","a","w">>,
    <<"r","a","w","m","a","t","e","r","i","a","l">>,
    <<"r","a","w","_","m","a","t","e","r","i","a","l">>,
    <<"r","a","w"," ","m","a","t","e","r","i","a","l">> }
SfgAliases ==
  { <<"s","f","g">>,
    <<"s","e","m","i">>,
    <<"s","e","m","i","_","f","i","n","i","s","h","e","d">>,
    <<"s","e","m","i","_","f","i","n","i","s","h","e","d","_","g","o","o","d">>,
    <<"s","e","m","i"," ","f","i","n","i","s","h","e","d">>,
    <<"s","e","m","i","-","f","i","n","i","s","h","e","d">>,
    <<"s","e","m","i","f","i","n","i","s","h","e","d">> }
FgAliases ==
  { <<"f","g">>,
    <<"f","i","n","i","s","h","e","d">>,
    <<"f","i","n","i","s","h","e","d","_","g","o","o","d">>,
    <<"f","i","n","i","s","h","e","d"," ","g","o","o","d">>,
    <<"f","i","n","i","s","h","e","d","-","g","o","o","d">> }
CanonicalText ==
  { <<"R","a","w">>, <<"S","F","G">>, <<"F","G">> }
CanonicalName(t) ==
  IF t = <<"R","a","w">> THEN "Raw" ELSE IF t = <<"S","F","G">> THEN "SFG" ELSE "FG"

\* A stage of a JSON body that is no string and not falsy: a number, an
\* array, an object. stage_raw.strip() raises AttributeError on it, which no
\* handler catches: the request is answered 500.
NonText == <<"<number>">>
StageRaises(stage_raw) == stage_raw = NonText

\* The aliases compared without lower().
stage_folder_name_case_sensitive(stage_raw) ==
  IF stage_raw = <<>> THEN ""
  ELSE LET s == Strip(stage_raw) IN
       IF s \in RawAliases THEN "Raw"
       ELSE IF s \in SfgAliases THEN "SFG"
       ELSE IF s \in FgAliases THEN "FG"
       ELSE IF stage_raw \in CanonicalText THEN CanonicalName(stage_raw)
       ELSE ""

\* The result is a canonical stage, or "" for Python's None.
stage_folder_name(stage_raw) ==
  IF stage_raw = <<>> THEN ""
  ELSE LET s == Lower(Strip(stage_raw)) IN
       IF s \in RawAliases THEN "Raw"
       ELSE IF s \in SfgAliases THEN "SFG"
       ELSE IF s \in FgAliases THEN "FG"
       ELSE IF stage_raw \in CanonicalText THEN CanonicalName(stage_raw)
       ELSE ""

(* --------------------------- placeholder engine ----------------------- *)
IsPrefixAt(pat, text, i) ==
  /\ i + Len(pat) - 1 <= Len(text)
  /\ \A j \in 1..Len(pat) : text[i + j - 1] = pat[j]

\* re.sub of a literal pattern: every non-overlapping occurrence, left to right.
RECURSIVE ReplaceFrom(_, _, _, _)
ReplaceFrom(text, pat, rep, i) ==
  IF i > Len(text) THEN <<>>
  ELSE IF IsPrefixAt(pat, text, i)
       THEN rep \o ReplaceFrom(text, pat, rep, i + Len(pat))
       ELSE <<text[i]>> \o ReplaceFrom(text, pat, rep, i + 1)

ReplaceAll(text, pat, rep) == ReplaceFrom(text, pat, rep, 1)

\* The replacement of re.sub is a template: a backslash starts an escape.
\* ReError stands for the re.error raised by a bad template.
ReError == <<"<re.error>">>
Escapes ==
  [c \in {"a","b","f","n","r","t","v","\\","0"} |->
     CASE c = "a" -> "<BEL>" [] c = "b" -> "<BS>" [] c = "f" -> "\f"
       [] c = "n" -> "\n" [] c = "r" -> "\r" [] c = "t" -> "\t"
       [] c = "v" -> "<VT>" [] c = "\\" -> "\\" [] c = "0" -> "<NUL>"]

\* re's parse_template applied to a match of a pattern without groups: \\ and
\* the control escapes are decoded, \g<0> is the match, a group number or an
\* unknown letter is an error, any other escaped character stays as written.
RECURSIVE ExpandFrom(_, _, _)
ExpandFrom(rep, i, match) ==
  IF i > Len(rep) THEN <<>>
  ELSE IF rep[i] # "\\"
       THEN LET rest == ExpandFrom(rep, i + 1, match)
            IN IF rest = ReError THEN ReError ELSE <<rep[i]>> \o rest
  ELSE IF i = Len(rep) THEN ReError
  ELSE LET c == rep[i + 1] IN
       IF c = "g"
       THEN IF i + 4 <= Len(rep) /\ SubSeq(rep, i + 2, i + 4) = <<"<","0",">">>
            THEN LET rest == ExpandFrom(rep, i + 5, match)
                 IN IF rest = ReError THEN ReError ELSE match \o rest
            ELSE ReError
       ELSE IF c \in DOMAIN Escapes
       THEN LET rest == ExpandFrom(rep, i + 2, match)
            IN IF rest = ReError THEN ReError ELSE <<Escapes[c]>> \o rest
       ELSE IF \/ \E k \in 1..Len(UpperCase) : c \in {UpperCase[k], LowerCase[k]}
               \/ c \in {"0","1","2","3","4","5","6","7","8","9"}
       THEN ReError
       ELSE LET rest == ExpandFrom(rep, i + 2, match)
            IN IF rest = ReError THEN ReError ELSE <<"\\", c>> \o rest

ExpandTemplate(rep, match) == ExpandFrom(rep, 1, match)

\* A JSON value is text, or one of two markers: null, and a value SQLite
\* cannot bind (a JSON array, here the empty one).
Null == <<"<null>">>
Unbindable == <<"<list>">>
Bindable(v) == v # Unbindable
\* str(v) if v is not None else ""
ValueText(v) ==
  IF v = Null THEN <<>> ELSE IF v = Unbindable THEN <<"[","]">> ELSE v

\* A dict is the sequence of its <<key, value>> items in insertion order.
Keys(d) == [i \in 1..Len(d) |-> d[i][1]]
HasKey(d, k) == \E i \in 1..Len(d) : d[i][1] = k
Get(d, k) == d[CHOOSE i \in 1..Len(d) : d[i][1] = k][2]
Put(d, k, v) ==
  IF HasKey(d, k)
  THEN [i \in 1..Len(d) |-> IF d[i][1] = k THEN <<k, v>> ELSE d[i]]
  ELSE Append(d, <<k, v>>)

\* sorted(keys, key=lambda x: -len(x)): stable, longest first.
RECURSIVE InsertByLen(_, _)
InsertByLen(sorted, k) ==
  IF sorted = <<>> THEN <<k>>
  ELSE IF Len(Head(sorted)) >= Len(k)
       THEN <<Head(sorted)>> \o InsertByLen(Tail(sorted), k)
       ELSE <<k>> \o sorted

RECURSIVE SortLongestFirst(_)
SortLongestFirst(ks) ==
  IF ks = <<>> THEN <<>>
  ELSE InsertByLen(SortLongestFirst(SubSeq(ks, 1, Len(ks) - 1)), ks[Len(ks)])

\* One re.sub per key; a bad template raises before anything more is replaced.
RECURSIVE FillKeys(_, _, _)
FillKeys(content, d, ks) ==
  IF ks = <<>> THEN content
  ELSE LET token == <<"{">> \o Head(ks) \o <<"}">>
           rep == ExpandTemplate(ValueText(Get(d, Head(ks))), token)
       IN IF rep = ReError THEN ReError
          ELSE FillKeys(ReplaceAll(content, token, rep), d, Tail(ks))

_fill_prn_content(prn_content, d) ==
  FillKeys(prn_content, d, SortLongestFirst(Keys(d)))

(* --------------------------- placeholder scan ------------------------- *)
\* [A-Za-z0-9_], in the order of the code points.
WordChars ==
  <<"0","1","2","3","4","5","6","7","8","9">> \o UpperCase \o <<"_">> \o LowerCase
IsWord(c) == \E i \in 1..Len(WordChars) : WordChars[i] = c
\* The first position from i on that holds no word character.
RECURSIVE WordEnd(_, _)
WordEnd(text, i) ==
  IF i <= Len(text) /\ IsWord(text[i]) THEN WordEnd(text, i + 1) ELSE i

\* re.findall(r"\{[A-Za-z0-9_]+\}", text): the matches from left to right,
\* the scan resuming behind each match.
RECURSIVE FindAll(_, _)
FindAll(text, i) ==
  IF i > Len(text) THEN <<>>
  ELSE LET e == WordEnd(text, i + 1) IN
       IF text[i] = "{" /\ e > i + 1 /\ e <= Len(text) /\ text[e] = "}"
       THEN <<SubSeq(text, i, e)>> \o FindAll(text, e + 1)
       ELSE FindAll(text, i + 1)

\* m.strip("{}")
RECURSIVE StripBraces(_)
StripBraces(m) ==
  IF m # <<>> /\ Head(m) \in {"{", "}"} THEN StripBraces(Tail(m))
  ELSE IF m # <<>> /\ m[Len(m)] \in {"{", "}"} THEN StripBraces(SubSeq(m, 1, Len(m) - 1))
  ELSE m

\* The order of Python's str: by code point, a proper prefix first.
RECURSIVE LexLess(_, _)
LexLess(a, b) ==
  LET Ord(c) == IF IsWord(c) THEN 1 + CHOOSE i \in 1..Len(WordChars) : WordChars[i] = c
                ELSE IF c = "{" THEN Len(WordChars) + 2
                ELSE IF c = "}" THEN Len(WordChars) + 3
                ELSE 1
  IN IF b = <<>> THEN FALSE
     ELSE IF a = <<>> THEN TRUE
     ELSE IF Head(a) # Head(b) THEN Ord(Head(a)) < Ord(Head(b))
     ELSE LexLess(Tail(a), Tail(b))

RECURSIVE SortedList(_)
SortedList(S) ==
  IF S = {} THEN <<>>
  ELSE LET least == CHOOSE x \in S : \A y \in S \ {x} : LexLess(x, y)
       IN <<least>> \o SortedList(S \ {least})

\* The names in the order of their first match, not sorted.
extract_prn_columns_unsorted(text) ==
  LET ms == FindAll(text, 1)
      first == { i \in 1..Len(ms) : \A j \in 1..(i - 1) : ms[j] # ms[i] }
      RECURSIVE Pick(_)
      Pick(i) == IF i > Len(ms) THEN <<>>
                 ELSE IF i \in first THEN <<StripBraces(ms[i])>> \o Pick(i + 1)
                 ELSE Pick(i + 1)
  IN Pick(1)

\* sorted(set(m.strip("{}") for m in matches)), of the text read from the file.
extract_prn_columns(text) ==
  LET matches == FindAll(text, 1)
  IN SortedList({ StripBraces(matches[i]) : i \in 1..Len(matches) })

(* ------------------------------ file names ---------------------------- *)
Digit(n) == <<"0","1","2","3","4","5","6","7","8","9">>[n + 1]

\* str(n) for n >= 0
RECURSIVE Decimal(_)
Decimal(n) == IF n < 10 THEN <<Digit(n)>> ELSE Decimal(n \div 10) \o <<Digit(n % 10)>>

LastDot(name) ==
  IF \E i \in 1..Len(name) : name[i] = "."
  THEN CHOOSE i \in 1..Len(name) :
         name[i] = "." /\ \A j \in (i + 1)..Len(name) : name[j] # "."
  ELSE 0

\* os.path.splitext: the extension starts at the last dot, unless the name
\* has no dot or only leading dots.
SplitBase(name) ==
  LET i == LastDot(name) IN
  IF i = 0 \/ \A j \in 1..(i - 1) : name[j] = "." THEN name
  ELSE SubSeq(name, 1, i - 1)
SplitExt(name) ==
  LET i == LastDot(name) IN
  IF i = 0 \/ \A j \in 1..(i - 1) : name[j] = "." THEN <<>>
  ELSE SubSeq(name, i, Len(name))

allowed_file(filename) ==
  /\ LastDot(filename) # 0
  /\ Lower(SubSeq(filename, LastDot(filename) + 1, Len(filename))) = <<"p","r","n">>

SafeChar(c) ==
  \/ \E i \in 1..26 : UpperCase[i] = c \/ LowerCase[i] = c
  \/ \E n \in 0..9 : Digit(n) = c
  \/ c \in {"_", ".", "-"}

RECURSIVE StripDotUnderscoreL(_)
StripDotUnderscoreL(s) ==
  IF s # <<>> /\ Head(s) \in {".", "_"} THEN StripDotUnderscoreL(Tail(s)) ELSE s
RECURSIVE StripDotUnderscoreR(_)
StripDotUnderscoreR(s) ==
  IF s # <<>> /\ s[Len(s)] \in {".", "_"}
  THEN StripDotUnderscoreR(SubSeq(s, 1, Len(s) - 1)) ELSE s

\* "_".join(s.split()) after the path separators became spaces
RECURSIVE JoinWords(_)
JoinWords(s) ==
  IF s = <<>> THEN <<>>
  ELSE IF Head(s) \in {" ", "/"}
       THEN JoinWords(Tail(s))
       ELSE LET rest == Tail(s)
                gap == rest # <<>> /\ Head(rest) \in {" ", "/"}
                                   /\ LStrip(ReplaceAll(rest, <<"/">>, <<" ">>)) # <<>>
            IN <<Head(s)>> \o (IF gap THEN <<"_">> ELSE <<>>) \o JoinWords(rest)

\* werkzeug.utils.secure_filename
secure_filename(name) ==
  StripDotUnderscoreR(StripDotUnderscoreL(
      SelectSeq(JoinWords(name), SafeChar)))

\* re.sub(r"[^\w\-\_\. ]", "_", product_name).strip()
normalize_product_folder_name(product_name) ==
  IF product_name = <<>> THEN <<>>
  ELSE LET safe == secure_filename(product_name)
           FallbackChar(c) == IF SafeChar(c) \/ c = " " THEN c ELSE "_"
       IN
       IF safe # <<>> THEN safe
       ELSE Strip([i \in 1..Len(product_name) |-> FallbackChar(product_name[i])])


(* ------------------------------- state -------------------------------- *)
Reqs == 1..MaxReq
NoName == <<>>
NoPath == <<>>

VARIABLES
  db,        \* the committed SQLite database: products, variables, product_prns
  txn,       \* the connection holding the write lock and its uncommitted view
  fs,        \* the upload folder: a set of [path, content]
  clock,     \* utcnow(): [sec, ms]
  req,       \* the request served in each slot
  started    \* requests started so far

vars == <<db, txn, fs, clock, req, started>>

\* products: the product names, a row's id is its index.  variables and
\* prns: sets of rows.  varSeq, prnSeq: the AUTOINCREMENT counters.
EmptyDb ==
  [ products |-> <<>>, variables |-> {}, varSeq |-> 0, prns |-> {}, prnSeq |-> 0 ]
NoTxn == [ owner |-> 0, work |-> EmptyDb ]

IdleReq ==
  [ kind |-> "none", pc |-> "idle", status |-> 0,
    product |-> NoName, stage |-> "", pid |-> 0,
    filename |-> NoName, content |-> <<>>,
    variables |-> <<>>, i |-> 0, gen |-> FALSE, src |-> NoName,
    old |-> NoName, new |-> NoName, newval |-> <<>>, var_id |-> 0,
    path |-> NoPath, preview |-> NoPath, filled |-> FALSE,
    previews |-> 0, rowid |-> 0, listing |-> <<>>,
    text |-> <<>>, result |-> <<>> ]

Init ==
  /\ db = EmptyDb
  /\ txn = NoTxn
  /\ fs = {}
  /\ clock = [sec |-> 0, ms |-> 0]
  /\ req = [r \in Reqs |-> IdleReq]
  /\ started = 0

(* --------------------------- requests --------------------------------- *)
\* A request is served in the lowest free slot (the slots are interchangeable).
Free(r) == req[r].pc \in {"idle", "done"}
CanStart(r) == Free(r) /\ \A o \in 1..(r - 1) : ~Free(o)
Begin(r, kind) == [IdleReq EXCEPT !.kind = kind]
\* The answer: the status, and the file name, the filled flag and the
\* listing it carries.
Finish(q, status) ==
  [IdleReq EXCEPT !.kind = q.kind, !.pc = "done", !.status = status,
                  !.filename = q.filename, !.filled = q.filled,
                  !.previews = q.previews, !.listing = q.listing]

(* ------------------------------ the store ----------------------------- *)
\* What request r's connection reads.
View(r) == IF txn.owner = r THEN txn.work ELSE db
\* Another connection holds the write lock.
Locked(r) == txn.owner # 0 /\ txn.owner # r

\* A write statement by r leaves d as r's uncommitted view.
Hold(r, d) == txn' = [owner |-> r, work |-> d] /\ db' = db
\* conn.commit() with d as r's view
Commit(r, d) == db' = d /\ txn' = NoTxn
\* conn.commit() after no further statement
CommitOpen(r) ==
  IF txn.owner = r THEN Commit(r, txn.work) ELSE UNCHANGED <<db, txn>>
\* The connection is closed at teardown with its writes uncommitted.
Rollback(r) ==
  /\ txn' = IF txn.owner = r THEN NoTxn ELSE txn
  /\ db' = db

ProductId(ps, name) ==
  IF \E i \in 1..Len(ps) : ps[i] = name
  THEN CHOOSE i \in 1..Len(ps) : ps[i] = name
  ELSE 0

\* INSERT OR IGNORE INTO products (product_name) VALUES (?)
\* INSERT without OR IGNORE and without the UNIQUE constraint.
InsertProductAlways(d, name) ==
  [d EXCEPT !.products = Append(@, name)]

InsertOrIgnoreProduct(d, name) ==
  IF ProductId(d.products, name) # 0 THEN d
  ELSE [d EXCEPT !.products = Append(@, name)]

VarRows(d, pid, stage, name) ==
  { v \in d.variables : v.product_id = pid /\ v.stage = stage /\ v.field_name = name }

\* UNIQUE(product_id, stage, field_name)
VarConflict(d, pid, stage, name) == VarRows(d, pid, stage, name) # {}

\* INSERT INTO variables (product_id, stage, field_name, field_value)
InsertVar(d, pid, stage, name, value) ==
  [d EXCEPT !.variables = @ \cup
              { [ id |-> d.varSeq + 1, product_id |-> pid, stage |-> stage,
                  field_name |-> name, field_value |-> value ] },
            !.varSeq = @ + 1]

\* The upsert that always inserts (a store without the UNIQUE index).
UpsertVarAlwaysInsert(d, pid, stage, name, value) ==
  InsertVar(d, pid, stage, name, value)

\* The upsert that keeps the stored value (ON CONFLICT DO NOTHING).
UpsertVarDoNothing(d, pid, stage, name, value) ==
  IF VarConflict(d, pid, stage, name) THEN d
  ELSE InsertVar(d, pid, stage, name, value)

\* INSERT ... ON CONFLICT(product_id, stage, field_name)
\* DO UPDATE SET field_value = excluded.field_value
\* (varSeq counts the rows inserted: ids are opaque, only their order matters)
\* The upsert keyed by product and name only, whatever the stage.
UpsertVarAnyStage(d, pid, stage, name, value) ==
  IF \E v \in d.variables : v.product_id = pid /\ v.field_name = name
  THEN [d EXCEPT !.variables =
          { IF v.product_id = pid /\ v.field_name = name
            THEN [v EXCEPT !.field_value = value] ELSE v : v \in @ }]
  ELSE InsertVar(d, pid, stage, name, value)

UpsertVar(d, pid, stage, name, value) ==
  IF VarConflict(d, pid, stage, name)
  THEN [d EXCEPT !.variables =
          { IF v \in VarRows(d, pid, stage, name)
            THEN [v EXCEPT !.field_value = value] ELSE v : v \in @ }]
  ELSE InsertVar(d, pid, stage, name, value)

\* DELETE FROM variables WHERE product_id = ? AND stage = ? AND field_name = ?
\* The delete cascading to the artifacts of the product and stage.
DeleteVarCascade(d, pid, stage, name) ==
  [d EXCEPT !.variables = @ \ VarRows(d, pid, stage, name),
            !.prns = { a \in @ : ~(a.product_id = pid /\ a.stage = stage) }]

DeleteVar(d, pid, stage, name) ==
  [d EXCEPT !.variables = @ \ VarRows(d, pid, stage, name)]

\* UPDATE variables SET field_name = ? WHERE id = ?
RenameVar(d, id, new_name) ==
  [d EXCEPT !.variables =
     { IF v.id = id THEN [v EXCEPT !.field_name = new_name] ELSE v : v \in @ }]
\* ... which the UNIQUE index refuses (sqlite3.IntegrityError)
RenameConflict(d, id, new_name) ==
  \E v \in d.variables : \E w \in d.variables :
     /\ v.id = id /\ w.id # id
     /\ w.product_id = v.product_id /\ w.stage = v.stage /\ w.field_name = new_name
\* UPDATE variables SET field_value = ? WHERE id = ?
SetVarValue(d, id, value) ==
  [d EXCEPT !.variables =
     { IF v.id = id THEN [v EXCEPT !.field_value = value] ELSE v : v \in @ }]

(* ------------------------------ the clock ----------------------------- *)
Tick ==
  /\ \/ /\ clock.ms < MaxMs
        /\ clock' = [clock EXCEPT !.ms = @ + 1]
     \/ /\ clock.sec < MaxSec
        /\ clock' = [sec |-> clock.sec + 1, ms |-> 0]
  /\ UNCHANGED <<db, txn, fs, req, started>>

\* int(datetime.utcnow().timestamp())
NowSec == clock.sec
\* int(datetime.utcnow().timestamp() * 1000)
NowMs == clock.sec * MsPerSec + clock.ms

(* --------------------------- the upload folder ------------------------ *)
FileExists(files, path) == \E f \in files : f.path = path
ReadFile(files, path) == (CHOOSE f \in files : f.path = path).content
WriteFile(files, path, content) ==
  { f \in files : f.path # path } \cup { [path |-> path, content |-> content] }
RemoveFile(files, path) == { f \in files : f.path # path }

(* ----------------------------- add-variable --------------------------- *)
\* The insert resolved by overwriting the stored value.
add_variable_overwrite(r, product_raw, stage_raw, name_raw, value) ==
  /\ CanStart(r)
  /\ started' = started + 1
  /\ LET stage == stage_folder_name(stage_raw)
         product_name == Strip(product_raw)
         field_name == Strip(name_raw)
         pid == ProductId(db.products, product_name)
         q == Begin(r, "add_variable")
     IN IF StageRaises(stage_raw)
        THEN req' = [req EXCEPT ![r] = Finish(q, 500)] /\ Rollback(r)
        ELSE IF stage = "" \/ product_name = <<>> \/ field_name = <<>>
        THEN req' = [req EXCEPT ![r] = Finish(q, 400)] /\ Rollback(r)
        ELSE IF pid = 0
        THEN req' = [req EXCEPT ![r] = Finish(q, 404)] /\ Rollback(r)
        ELSE IF ~Bindable(value) \/ Locked(r)
        THEN req' = [req EXCEPT ![r] = Finish(q, 500)] /\ Rollback(r)
        ELSE /\ Commit(r, UpsertVar(db, pid, stage, field_name, value))
             /\ req' = [req EXCEPT ![r] = Finish(q, 200)]
  /\ UNCHANGED <<fs, clock>>

add_variable(r, product_raw, stage_raw, name_raw, value) ==
  /\ CanStart(r)
  /\ started' = started + 1
  /\ LET stage == stage_folder_name(stage_raw)
         product_name == Strip(product_raw)
         field_name == Strip(name_raw)
         pid == ProductId(db.products, product_name)
         q == Begin(r, "add_variable")
     IN IF StageRaises(stage_raw)
        THEN req' = [req EXCEPT ![r] = Finish(q, 500)] /\ Rollback(r)
        ELSE IF stage = "" \/ product_name = <<>> \/ field_name = <<>>
        THEN req' = [req EXCEPT ![r] = Finish(q, 400)] /\ Rollback(r)
        ELSE IF pid = 0
        THEN req' = [req EXCEPT ![r] = Finish(q, 404)] /\ Rollback(r)
        ELSE IF ~Bindable(value) \/ Locked(r)
        THEN req' = [req EXCEPT ![r] = Finish(q, 500)] /\ Rollback(r)
        ELSE IF VarConflict(db, pid, stage, field_name)
        THEN req' = [req EXCEPT ![r] = Finish(q, 409)] /\ Rollback(r)
        ELSE /\ Commit(r, InsertVar(db, pid, stage, field_name, value))
             /\ req' = [req EXCEPT ![r] = Finish(q, 200)]
  /\ UNCHANGED <<fs, clock>>

(* ---------------------------- delete-variable ------------------------- *)
delete_variable(r, product_raw, stage_raw, name_raw) ==
  /\ CanStart(r)
  /\ started' = started + 1
  /\ LET stage == stage_folder_name(stage_raw)
         product_name == Strip(product_raw)
         field_name == Strip(name_raw)
         pid == ProductId(db.products, product_name)
         q == Begin(r, "delete_variable")
     IN IF StageRaises(stage_raw)
        THEN req' = [req EXCEPT ![r] = Finish(q, 500)] /\ Rollback(r)
        ELSE IF stage = ""
        THEN req' = [req EXCEPT ![r] = Finish(q, 400)] /\ Rollback(r)
        ELSE IF pid = 0
        THEN req' = [req EXCEPT ![r] = Finish(q, 404)] /\ Rollback(r)
        ELSE IF Locked(r)
        THEN req' = [req EXCEPT ![r] = Finish(q, 500)] /\ Rollback(r)
        ELSE IF ~VarConflict(db, pid, stage, field_name)
        THEN req' = [req EXCEPT ![r] = Finish(q, 404)] /\ Rollback(r)
        ELSE /\ Commit(r, DeleteVar(db, pid, stage, field_name))
             /\ req' = [req EXCEPT ![r] = Finish(q, 200)]
  /\ UNCHANGED <<fs, clock>>

(* ------------------------------ save-fields --------------------------- *)
\* if generate_filled and data.get("source_prn_filename")
AfterSave(q) ==
  IF q.gen /\ q.src # NoName
  THEN [q EXCEPT !.pc = "gen_write", !.src = secure_filename(q.src)]
  ELSE Finish(q, 200)

\* Validation, then INSERT OR IGNORE INTO products, commit, SELECT id.
save_fields(r, product_raw, stage_raw, batch, gen, src) ==
  /\ CanStart(r)
  /\ started' = started + 1
  /\ LET stage == stage_folder_name(stage_raw)
         product_name == Strip(product_raw)
         d == InsertOrIgnoreProduct(db, product_name)
         q == [Begin(r, "save_fields") EXCEPT
                 !.product = product_name, !.stage = stage,
                 !.variables = batch, !.gen = gen, !.src = src]
     IN IF StageRaises(stage_raw)
        THEN req' = [req EXCEPT ![r] = Finish(q, 500)] /\ Rollback(r)
        ELSE IF stage = "" \/ product_name = <<>>
        THEN req' = [req EXCEPT ![r] = Finish(q, 400)] /\ Rollback(r)
        ELSE IF Locked(r)
        THEN req' = [req EXCEPT ![r] = Finish(q, 500)] /\ Rollback(r)
        ELSE /\ Commit(r, d)
             /\ req' = [req EXCEPT ![r] =
                          [q EXCEPT !.pc = "sf_upsert", !.i = 1,
                                    !.pid = ProductId(d.products, product_name)]]
  /\ UNCHANGED <<fs, clock>>

\* The loop with every statement committed on its own (autocommit).
SfUpsertAutocommit(r) ==
  /\ req[r].pc = "sf_upsert"
  /\ ~Locked(r)
  /\ LET q == req[r]
         item == q.variables[q.i]
         d == UpsertVar(View(r), q.pid, q.stage, item[1], item[2])
     IN IF ~Bindable(item[2])
        THEN Rollback(r) /\ req' = [req EXCEPT ![r] = Finish(q, 500)]
        ELSE IF q.i < Len(q.variables)
        THEN Commit(r, d) /\ req' = [req EXCEPT ![r] = [q EXCEPT !.i = q.i + 1]]
        ELSE Commit(r, d) /\ req' = [req EXCEPT ![r] = AfterSave(q)]
  /\ UNCHANGED <<fs, clock, started>>

\* One pass of the loop over variables.items(); the pass for the last item
\* is followed by conn.commit().  A value SQLite cannot bind raises, the
\* handler answers 500 and the connection is closed uncommitted.
SfUpsert(r) ==
  /\ req[r].pc = "sf_upsert"
  /\ ~Locked(r)
  /\ LET q == req[r]
         item == q.variables[q.i]
         d == UpsertVar(View(r), q.pid, q.stage, item[1], item[2])
     IN IF ~Bindable(item[2])
        THEN Rollback(r) /\ req' = [req EXCEPT ![r] = Finish(q, 500)]
        ELSE IF q.i < Len(q.variables)
        THEN Hold(r, d) /\ req' = [req EXCEPT ![r] = [q EXCEPT !.i = q.i + 1]]
        ELSE Commit(r, d) /\ req' = [req EXCEPT ![r] = AfterSave(q)]
  /\ UNCHANGED <<fs, clock, started>>

(* ---------------------------- update-variable ------------------------- *)
\* The handler without the SELECT for the target name.
update_variable_unchecked(r, product_raw, stage_raw, old_raw, new_raw, new_value, gen, src) ==
  /\ CanStart(r)
  /\ started' = started + 1
  /\ LET stage == stage_folder_name(stage_raw)
         product_name == Strip(product_raw)
         old == Strip(old_raw)
         new_name == Strip(new_raw)
         pid == ProductId(db.products, product_name)
         hit == VarRows(db, pid, stage, old)
         q == [Begin(r, "update_variable") EXCEPT
                 !.product = product_name, !.stage = stage, !.pid = pid,
                 !.old = old, !.new = new_name, !.newval = new_value,
                 !.gen = gen, !.src = src]
     IN req' = [req EXCEPT ![r] =
          IF StageRaises(stage_raw) THEN Finish(q, 500)
          ELSE IF stage = "" THEN Finish(q, 400)
          ELSE IF pid = 0 THEN Finish(q, 404)
          ELSE IF hit = {} THEN Finish(q, 404)
          ELSE [q EXCEPT !.pc = IF new_name # old THEN "uv_name" ELSE "uv_value",
                         !.var_id = (CHOOSE v \in hit : TRUE).id]]
  /\ UNCHANGED <<db, txn, fs, clock>>

\* Validation and the three SELECTs: the product, the variable, the target name.
update_variable(r, product_raw, stage_raw, old_raw, new_raw, new_value, gen, src) ==
  /\ CanStart(r)
  /\ started' = started + 1
  /\ LET stage == stage_folder_name(stage_raw)
         product_name == Strip(product_raw)
         old == Strip(old_raw)
         new_name == Strip(new_raw)
         pid == ProductId(db.products, product_name)
         hit == VarRows(db, pid, stage, old)
         q == [Begin(r, "update_variable") EXCEPT
                 !.product = product_name, !.stage = stage, !.pid = pid,
                 !.old = old, !.new = new_name, !.newval = new_value,
                 !.gen = gen, !.src = src]
     IN req' = [req EXCEPT ![r] =
          IF StageRaises(stage_raw) THEN Finish(q, 500)
          ELSE IF stage = "" THEN Finish(q, 400)
          ELSE IF pid = 0 THEN Finish(q, 404)
          ELSE IF hit = {} THEN Finish(q, 404)
          ELSE IF new_name # old /\ VarConflict(db, pid, stage, new_name)
          THEN Finish(q, 409)
          ELSE [q EXCEPT !.pc = IF new_name # old THEN "uv_name" ELSE "uv_value",
                         !.var_id = (CHOOSE v \in hit : TRUE).id]]
  /\ UNCHANGED <<db, txn, fs, clock>>

\* if new_name != old: UPDATE variables SET field_name
\* The rename committed on its own, before the value is set.
UvNameAutocommit(r) ==
  /\ req[r].pc = "uv_name"
  /\ ~Locked(r)
  /\ LET q == req[r] IN
     IF RenameConflict(View(r), q.var_id, q.new)
     THEN Rollback(r) /\ req' = [req EXCEPT ![r] = Finish(q, 500)]
     ELSE /\ Commit(r, RenameVar(View(r), q.var_id, q.new))
          /\ req' = [req EXCEPT ![r] = [q EXCEPT !.pc = "uv_value"]]
  /\ UNCHANGED <<fs, clock, started>>

UvName(r) ==
  /\ req[r].pc = "uv_name"
  /\ ~Locked(r)
  /\ LET q == req[r] IN
     IF RenameConflict(View(r), q.var_id, q.new)
     THEN Rollback(r) /\ req' = [req EXCEPT ![r] = Finish(q, 500)]
     ELSE /\ Hold(r, RenameVar(View(r), q.var_id, q.new))
          /\ req' = [req EXCEPT ![r] = [q EXCEPT !.pc = "uv_value"]]
  /\ UNCHANGED <<fs, clock, started>>

AfterUpdate(q) == IF q.gen THEN [q EXCEPT !.pc = "uv_gen"] ELSE Finish(q, 200)

\* if new_value is not None: UPDATE variables SET field_value; conn.commit()
UvValue(r) ==
  /\ req[r].pc = "uv_value"
  /\ LET q == req[r] IN
     IF q.newval = Null
     THEN CommitOpen(r) /\ req' = [req EXCEPT ![r] = AfterUpdate(q)]
     ELSE IF ~Bindable(q.newval)
     THEN Rollback(r) /\ req' = [req EXCEPT ![r] = Finish(q, 500)]
     ELSE /\ ~Locked(r)
          /\ Commit(r, SetVarValue(View(r), q.var_id, q.newval))
          /\ req' = [req EXCEPT ![r] = AfterUpdate(q)]
  /\ UNCHANGED <<fs, clock, started>>

(* --------------------------- artifact registry ------------------------ *)
PrnRows(d, pid, stage, filename) ==
  { a \in d.prns : a.product_id = pid /\ a.stage = stage /\ a.prn_filename = filename }

\* UNIQUE(product_id, stage, prn_filename)
PrnConflict(d, pid, stage, filename) == PrnRows(d, pid, stage, filename) # {}

\* INSERT INTO product_prns (product_id, stage, prn_filename, prn_path);
\* preview_path is NULL and uploaded_at is CURRENT_TIMESTAMP.
InsertPrn(d, pid, stage, filename, path, now) ==
  [d EXCEPT !.prns = @ \cup
              { [ id |-> d.prnSeq + 1, product_id |-> pid, stage |-> stage,
                  prn_filename |-> filename, prn_path |-> path,
                  preview_path |-> NoPath, uploaded_at |-> now ] },
            !.prnSeq = @ + 1]

\* UPDATE product_prns SET preview_path = ?
\* WHERE product_id = ? AND stage = ? AND prn_filename = ?
BindPreview(d, pid, stage, filename, preview) ==
  [d EXCEPT !.prns =
     { IF a \in PrnRows(d, pid, stage, filename)
       THEN [a EXCEPT !.preview_path = preview] ELSE a : a \in @ }]

\* DELETE FROM product_prns WHERE id = ?
DeletePrn(d, id) == [d EXCEPT !.prns = { a \in @ : a.id # id }]

PrnPath(folder, stage, filename) == <<folder, stage, filename>>
ProductDir(q) == normalize_product_folder_name(q.product)
PreviewPath(q) ==
  PrnPath(ProductDir(q), q.stage, SplitBase(q.filename) \o <<".","p","n","g">>)

(* -------------------------------- upload ------------------------------ *)
\* The name the upload is saved under: the requested one unless a file of
\* that name exists in the product's stage folder.
UploadName(files, folder, stage, filename, sec) ==
  IF FileExists(files, PrnPath(folder, stage, filename))
  THEN \* f"{base}_{int(datetime.utcnow().timestamp())}{ext}"
       SplitBase(filename) \o <<"_">> \o Decimal(sec) \o SplitExt(filename)
  ELSE filename

\* Validation, the folder, the os.path.exists check and the name.
upload_file(r, product_raw, stage_raw, file_name, content) ==
  /\ CanStart(r)
  /\ started' = started + 1
  /\ LET product_name == Strip(product_raw)
         stage == stage_folder_name(Strip(stage_raw))
         folder == normalize_product_folder_name(product_name)
         filename == UploadName(fs, folder, stage, secure_filename(file_name), NowSec)
         q == [Begin(r, "upload") EXCEPT
                 !.product = product_name, !.stage = stage, !.content = content]
     IN req' = [req EXCEPT ![r] =
          IF product_name = <<>> \/ stage = "" \/ file_name = <<>>
             \/ ~allowed_file(file_name)
          THEN Finish(q, 400)
          ELSE [q EXCEPT !.pc = "up_save", !.filename = filename,
                         !.path = PrnPath(folder, stage, filename)]]
  /\ UNCHANGED <<db, txn, fs, clock>>

\* file.save(save_path)
UpSave(r) ==
  /\ req[r].pc = "up_save"
  /\ fs' = WriteFile(fs, req[r].path, req[r].content)
  /\ req' = [req EXCEPT ![r].pc = "up_register"]
  /\ UNCHANGED <<db, txn, clock, started>>

\* INSERT OR IGNORE INTO products, commit, INSERT INTO product_prns, commit.
UpRegister(r) ==
  /\ req[r].pc = "up_register"
  /\ ~Locked(r)
  /\ LET q == req[r]
         d == InsertOrIgnoreProduct(db, q.product)
         pid == ProductId(d.products, q.product)
     IN IF PrnConflict(d, pid, q.stage, q.filename)
        THEN /\ Commit(r, d)
             /\ req' = [req EXCEPT ![r] = Finish(q, 409)]
        ELSE /\ Commit(r, InsertPrn(d, pid, q.stage, q.filename, q.path, NowSec))
             /\ req' = [req EXCEPT ![r] =
                          [q EXCEPT !.pc = "preview", !.pid = pid,
                                    !.rowid = d.prnSeq + 1]]
  /\ UNCHANGED <<fs, clock, started>>

(* ------------------------------- preview ------------------------------ *)
PngContent == <<"P","N","G">>

\* What the handler answers once the preview step is over.
Answer(q) ==
  IF q.kind = "upload" THEN Finish(q, 200)
  ELSE Finish([q EXCEPT !.filled = TRUE], 200)

\* The preview step with a failed preview failing the request.
PreviewFailureFatal(r, ok) ==
  /\ req[r].pc = "preview"
  /\ LET q == [req[r] EXCEPT !.previews = @ + 1] IN
     IF ok /\ FileExists(fs, q.path)
     THEN /\ fs' = WriteFile(fs, PreviewPath(q), PngContent)
          /\ req' = [req EXCEPT ![r] = [q EXCEPT !.pc = "bind"]]
     ELSE /\ fs' = fs
          /\ req' = [req EXCEPT ![r] = Finish(q, 500)]
  /\ UNCHANGED <<db, txn, clock, started>>

\* generate_preview(prn_path, out_path): the Labelary call answers 200 and the
\* image is written (ok), or it fails, times out, or the file cannot be read.
Preview(r, ok) ==
  /\ req[r].pc = "preview"
  /\ LET q == [req[r] EXCEPT !.previews = @ + 1] IN
     IF ok /\ FileExists(fs, q.path)
     THEN /\ fs' = WriteFile(fs, PreviewPath(q), PngContent)
          /\ req' = [req EXCEPT ![r] = [q EXCEPT !.pc = "bind"]]
     ELSE /\ fs' = fs
          /\ req' = [req EXCEPT ![r] = Answer(q)]
  /\ UNCHANGED <<db, txn, clock, started>>

\* if preview_ok: UPDATE product_prns SET preview_path ..., commit
Bind(r) ==
  /\ req[r].pc = "bind"
  /\ ~Locked(r)
  /\ LET q == req[r] IN
     /\ Commit(r, BindPreview(db, q.pid, q.stage, q.filename, PreviewPath(q)))
     /\ req' = [req EXCEPT ![r] = Answer(q)]
  /\ UNCHANGED <<fs, clock, started>>

(* ------------------------- filled-artifact generation ----------------- *)
\* f"{base}_filled_{int(utcnow().timestamp())}{ext}"
FilledName(src, sec) ==
  SplitBase(src) \o <<"_","f","i","l","l","e","d","_">> \o Decimal(sec) \o SplitExt(src)
\* f"{base}_filled_{int(ts)}_{int(ts * 1000)}{ext}"
RetryName(src, sec, ms) ==
  SplitBase(src) \o <<"_","f","i","l","l","e","d","_">> \o Decimal(sec)
    \o <<"_">> \o Decimal(ms) \o SplitExt(src)

\* The rows of one (product, stage) in rowid order, as a dict.
RECURSIVE RowsToDict(_)
RowsToDict(rows) ==
  IF rows = {} THEN <<>>
  ELSE LET last == CHOOSE v \in rows : \A w \in rows : w.id <= v.id
       IN Append(RowsToDict(rows \ {last}), <<last.field_name, last.field_value>>)

StageVars(d, pid, stage) ==
  { v \in d.variables : v.product_id = pid /\ v.stage = stage }

\* update-variable: the variables of the product+stage read back from the
\* store, with the updated field set again from the request.
UpdateDict(d, q) ==
  LET dict == RowsToDict(StageVars(d, q.pid, q.stage))
  IN Put(dict, q.new,
         IF q.newval # Null THEN q.newval
         ELSE IF HasKey(dict, q.new) THEN Get(dict, q.new) ELSE <<>>)

\* ORDER BY uploaded_at DESC LIMIT 1: any row of the latest second.
MostRecent(d, pid, stage) ==
  LET mine == { a \in d.prns : a.product_id = pid /\ a.stage = stage }
  IN { a.prn_filename : a \in { a \in mine : \A b \in mine : b.uploaded_at <= a.uploaded_at } }

\* update-variable after its commit: build the dict and pick the source.
UvGen(r, recent) ==
  /\ req[r].pc = "uv_gen"
  /\ LET q == req[r]
         dict == UpdateDict(db, q)
         candidates == MostRecent(db, q.pid, q.stage)
         src == IF q.src # NoName THEN secure_filename(q.src) ELSE recent
     IN /\ recent \in (IF q.src # NoName \/ candidates = {} THEN {NoName} ELSE candidates)
        /\ req' = [req EXCEPT ![r] =
             IF src = NoName THEN Finish(q, 200)
             ELSE [q EXCEPT !.pc = "gen_write", !.variables = dict, !.src = src]]
  /\ UNCHANGED <<db, txn, fs, clock, started>>

\* if os.path.exists(src_path): read it, fill it, write the filled file.
GenWrite(r) ==
  /\ req[r].pc = "gen_write"
  /\ LET q == req[r]
         src_path == PrnPath(ProductDir(q), q.stage, q.src)
         filled_fname == FilledName(q.src, NowSec)
         filled_path == PrnPath(ProductDir(q), q.stage, filled_fname)
     IN IF ~FileExists(fs, src_path)
        THEN /\ fs' = fs
             /\ req' = [req EXCEPT ![r] = Finish(q, 200)]
        ELSE LET filled_content == _fill_prn_content(ReadFile(fs, src_path), q.variables)
             IN IF filled_content = ReError
                THEN /\ fs' = fs
                     /\ req' = [req EXCEPT ![r] = Finish(q, 200)]
                ELSE /\ fs' = WriteFile(fs, filled_path, filled_content)
                     /\ req' = [req EXCEPT ![r] =
                             [q EXCEPT !.pc = "gen_insert", !.filename = filled_fname,
                                       !.path = filled_path, !.content = filled_content]]
  /\ UNCHANGED <<db, txn, clock, started>>

\* The registration of the filled file left uncommitted until the end of the request.
GenInsertUncommitted(r) ==
  /\ req[r].pc = "gen_insert"
  /\ ~Locked(r)
  /\ LET q == req[r] IN
     IF PrnConflict(db, q.pid, q.stage, q.filename)
     THEN /\ req' = [req EXCEPT ![r].pc = "gen_retry"]
          /\ Hold(r, db)
     ELSE /\ Hold(r, InsertPrn(db, q.pid, q.stage, q.filename, q.path, NowSec))
          /\ req' = [req EXCEPT ![r] = [q EXCEPT !.pc = "preview", !.rowid = db.prnSeq + 1]]
  /\ UNCHANGED <<fs, clock, started>>

\* INSERT INTO product_prns, commit; except sqlite3.IntegrityError: retry.
\* The refused INSERT has opened the connection's transaction, which stays
\* open (and keeps the write lock) until the retry commits.
GenInsert(r) ==
  /\ req[r].pc = "gen_insert"
  /\ ~Locked(r)
  /\ LET q == req[r] IN
     IF PrnConflict(db, q.pid, q.stage, q.filename)
     THEN /\ req' = [req EXCEPT ![r].pc = "gen_retry"]
          /\ Hold(r, db)
     ELSE /\ Commit(r, InsertPrn(db, q.pid, q.stage, q.filename, q.path, NowSec))
          /\ req' = [req EXCEPT ![r] = [q EXCEPT !.pc = "preview", !.rowid = db.prnSeq + 1]]
  /\ UNCHANGED <<fs, clock, started>>

\* The fallback: a name with the millisecond stamp appended, the file
\* written again, one more INSERT; a second IntegrityError is only logged
\* and the answer carries no filled file.
GenRetry(r) ==
  /\ req[r].pc = "gen_retry"
  /\ LET q == req[r]
         filled_fname == RetryName(q.src, NowSec, NowMs)
         filled_path == PrnPath(ProductDir(q), q.stage, filled_fname)
         q2 == [q EXCEPT !.filename = filled_fname, !.path = filled_path]
     IN /\ fs' = WriteFile(fs, filled_path, q.content)
        /\ IF PrnConflict(View(r), q.pid, q.stage, filled_fname)
           THEN /\ req' = [req EXCEPT ![r] = Finish([q2 EXCEPT !.filename = NoName], 200)]
                /\ Rollback(r)
           ELSE /\ Commit(r, InsertPrn(View(r), q.pid, q.stage, filled_fname,
                                       filled_path, NowSec))
                /\ req' = [req EXCEPT ![r] =
                             [q2 EXCEPT !.pc = "preview", !.rowid = View(r).prnSeq + 1]]
  /\ UNCHANGED <<clock, started>>

(* ------------------------------ delete-prn ---------------------------- *)
\* The handler with the DELETE left uncommitted.
delete_prn_uncommitted(r, product_raw, stage_raw, file_name) ==
  /\ CanStart(r)
  /\ started' = started + 1
  /\ LET stage == stage_folder_name(stage_raw)
         pname == Strip(product_raw)
         fname == secure_filename(file_name)
         pid == ProductId(db.products, pname)
         hit == PrnRows(db, pid, stage, fname)
         q == [Begin(r, "delete_prn") EXCEPT !.filename = fname]
     IN IF StageRaises(stage_raw)
        THEN req' = [req EXCEPT ![r] = Finish(q, 500)] /\ Rollback(r)
        ELSE IF stage = ""
        THEN req' = [req EXCEPT ![r] = Finish(q, 400)] /\ Rollback(r)
        ELSE IF pid = 0 \/ hit = {}
        THEN req' = [req EXCEPT ![r] = Finish(q, 404)] /\ Rollback(r)
        ELSE IF Locked(r)
        THEN req' = [req EXCEPT ![r] = Finish(q, 500)] /\ Rollback(r)
        ELSE LET row == CHOOSE a \in hit : TRUE
             IN /\ Hold(r, DeletePrn(db, row.id))
                /\ req' = [req EXCEPT ![r] =
                             [q EXCEPT !.pc = "dp_files", !.rowid = row.id,
                                       !.path = row.prn_path,
                                       !.preview = row.preview_path]]
  /\ UNCHANGED <<fs, clock>>

\* Validation, the two SELECTs, DELETE FROM product_prns WHERE id = ?, commit.
delete_prn(r, product_raw, stage_raw, file_name) ==
  /\ CanStart(r)
  /\ started' = started + 1
  /\ LET stage == stage_folder_name(stage_raw)
         pname == Strip(product_raw)
         fname == secure_filename(file_name)
         pid == ProductId(db.products, pname)
         hit == PrnRows(db, pid, stage, fname)
         q == [Begin(r, "delete_prn") EXCEPT !.filename = fname]
     IN IF StageRaises(stage_raw)
        THEN req' = [req EXCEPT ![r] = Finish(q, 500)] /\ Rollback(r)
        ELSE IF stage = ""
        THEN req' = [req EXCEPT ![r] = Finish(q, 400)] /\ Rollback(r)
        ELSE IF pid = 0 \/ hit = {}
        THEN req' = [req EXCEPT ![r] = Finish(q, 404)] /\ Rollback(r)
        ELSE IF Locked(r)
        THEN req' = [req EXCEPT ![r] = Finish(q, 500)] /\ Rollback(r)
        ELSE LET row == CHOOSE a \in hit : TRUE
             IN /\ Commit(r, DeletePrn(db, row.id))
                /\ req' = [req EXCEPT ![r] =
                             [q EXCEPT !.pc = "dp_files", !.rowid = row.id,
                                       !.path = row.prn_path,
                                       !.preview = row.preview_path]]
  /\ UNCHANGED <<fs, clock>>

\* Best-effort os.remove of the template and of the preview: an error at
\* the first or the second removal is logged and the answer is still 200.
RemovalOutcomes == {"removed", "first_fails", "second_fails"}
DpFiles(r, outcome) ==
  /\ req[r].pc = "dp_files"
  /\ LET q == req[r]
         one == IF outcome = "first_fails" THEN fs ELSE RemoveFile(fs, q.path)
         two == IF outcome = "removed" /\ q.preview # NoPath
                THEN RemoveFile(one, q.preview) ELSE one
     IN /\ (outcome = "first_fails") => FileExists(fs, q.path)
        /\ (outcome = "second_fails") => (q.preview # NoPath /\ FileExists(one, q.preview))
        /\ fs' = two
        /\ req' = [req EXCEPT ![r] = Finish(q, 200)]
  /\ UNCHANGED <<db, txn, clock, started>>

(* ------------------------------- list-prns ---------------------------- *)
\* ORDER BY uploaded_at DESC: every arrangement of the rows with the later
\* second first; SQL leaves the order of rows of one second open.
ListOrders(rows) ==
  { s \in [1..Cardinality(rows) -> rows] :
      /\ \A i \in DOMAIN s : \A j \in DOMAIN s : i # j => s[i] # s[j]
      /\ \A i \in DOMAIN s : \A j \in DOMAIN s :
           i < j => s[i].uploaded_at >= s[j].uploaded_at }

\* GET /list-prns/<product_name>/<stage>: the ids of the rows, as listed.
list_prns(r, product_name, stage_raw, order) ==
  /\ CanStart(r)
  /\ started' = started + 1
  /\ LET st == stage_folder_name(stage_raw)
         pid == ProductId(db.products, product_name)
         rows == { a \in db.prns : a.product_id = pid /\ a.stage = st }
         q == Begin(r, "list_prns")
     IN IF st = ""
        THEN order = <<>> /\ req' = [req EXCEPT ![r] = Finish(q, 400)]
        ELSE IF pid = 0
        THEN order = <<>> /\ req' = [req EXCEPT ![r] = Finish(q, 200)]
        ELSE /\ order \in ListOrders(rows)
             /\ req' = [req EXCEPT ![r] =
                  Finish([q EXCEPT !.listing = [i \in DOMAIN order |-> order[i].id]], 200)]
  /\ UNCHANGED <<db, txn, fs, clock>>

(* ------------------------ the store is locked ------------------------- *)
\* A write statement that finds another connection holding the write lock
\* until the busy timeout raises sqlite3.OperationalError: the handlers
\* answer 500, except that a failed registration of a filled file and a
\* failed preview binding are only logged.
BusyAt == {"sf_upsert", "uv_name", "uv_value", "up_register",
           "gen_insert", "bind"}
Busy(r) ==
  /\ req[r].pc \in BusyAt
  /\ Locked(r)
  /\ LET q == req[r] IN
     /\ q.pc = "uv_value" => q.newval # Null
     /\ req' = [req EXCEPT ![r] =
          IF q.pc \in {"sf_upsert", "uv_name", "uv_value", "up_register"}
          THEN Finish(q, 500)
          ELSE IF q.pc = "bind" THEN Answer(q)
          ELSE Finish([q EXCEPT !.filename = NoName], 200)]
  /\ UNCHANGED <<db, txn, fs, clock, started>>

(* ------------------------------- inputs ------------------------------- *)
ProductInputs == { <<"a"," ","b">> }
StageInputs == { <<"r","a","w">>, <<" ","F","G">>, <<"x">> }
FieldNames == { <<"A">>, <<"A","B">> }
FieldValues == { <<"1">>, <<"2">>, Unbindable }
Items == FieldNames \X FieldValues

RegProducts == { <<"a"," ","b">> }
RegStages == { <<"r","a","w">> }
RegValues == { <<"1">>, <<"2">> }
RegBatches == { <<it>> : it \in FieldNames \X RegValues }
FileInputs == { <<"x",".","p","r","n">>, <<"x","_","0",".","p","r","n">> }
Contents == { <<"{","A","}">>, <<"{","A","B","}","-","{","A","}">> }
TemplateName == <<"x",".","p","r","n">>
GenInputs == {TRUE} \X {TemplateName, NoName}

\* POST /create-product: INSERT OR IGNORE, commit, SELECT id; the answer
\* carries the product id.
create_product(r, product_raw) ==
  /\ CanStart(r)
  /\ started' = started + 1
  /\ LET pname == Strip(product_raw)
         d == InsertOrIgnoreProduct(db, pname)
         q == Begin(r, "create_product")
     IN IF pname = <<>>
        THEN req' = [req EXCEPT ![r] = Finish(q, 400)] /\ Rollback(r)
        ELSE IF Locked(r)
        THEN req' = [req EXCEPT ![r] = Finish(q, 500)] /\ Rollback(r)
        ELSE /\ Commit(r, d)
             /\ req' = [req EXCEPT ![r] =
                          [Finish(q, 200) EXCEPT !.pid = ProductId(d.products, pname)]]
  /\ UNCHANGED <<fs, clock>>

\* GET /get-product/<product_name>?stage=: an unknown product is inserted
\* once the stage has been accepted.
get_product(r, product_name, stage_raw) ==
  /\ CanStart(r)
  /\ started' = started + 1
  /\ LET stage == stage_folder_name(stage_raw)
         pid == ProductId(db.products, product_name)
         q == Begin(r, "get_product")
     IN IF stage = ""
        THEN req' = [req EXCEPT ![r] = Finish(q, 400)] /\ Rollback(r)
        ELSE IF pid # 0
        THEN req' = [req EXCEPT ![r] = Finish(q, 200)] /\ Rollback(r)
        ELSE IF Locked(r)
        THEN req' = [req EXCEPT ![r] = Finish(q, 500)] /\ Rollback(r)
        ELSE /\ Commit(r, InsertOrIgnoreProduct(db, product_name))
             /\ req' = [req EXCEPT ![r] = Finish(q, 200)]
  /\ UNCHANGED <<fs, clock>>

\* GET /get-prn/<product_name>/<stage>/<filename>
get_prn(r, product_name, stage_raw, filename) ==
  /\ CanStart(r)
  /\ started' = started + 1
  /\ LET st == stage_folder_name(stage_raw)
         pid == ProductId(db.products, product_name)
         fname == secure_filename(filename)
         hit == PrnRows(db, pid, st, fname)
         q == [Begin(r, "get_prn") EXCEPT !.filename = fname]
     IN req' = [req EXCEPT ![r] =
          IF st = "" THEN Finish(q, 400)
          ELSE IF pid = 0 \/ hit = {} THEN Finish(q, 404)
          ELSE IF ~FileExists(fs, (CHOOSE a \in hit : TRUE).prn_path) THEN Finish(q, 404)
          ELSE Finish(q, 200)]
  /\ UNCHANGED <<db, txn, fs, clock>>

(* ---------------------------- specifications -------------------------- *)
\* The variable store under concurrent requests.
StoreNext ==
  \/ \E r \in Reqs, p \in ProductInputs, s \in StageInputs, n \in FieldNames,
        v \in FieldValues :
        started < MaxStoreOps /\ add_variable(r, p, s, n, v)
  \/ \E r \in Reqs, p \in ProductInputs, s \in StageInputs, n \in FieldNames :
        started < MaxStoreOps /\ delete_variable(r, p, s, n)
  \/ \E r \in Reqs, p \in ProductInputs, s \in StageInputs, b \in ({ <<it>> : it \in Items } \cup
             { <<p[1], p[2]>> : p \in { p \in Items \X Items : Len(p[1][1]) < Len(p[2][1]) } }) :
        started < MaxStoreOps /\ save_fields(r, p, s, b, FALSE, NoName)
  \/ \E r \in Reqs : SfUpsert(r)
  \/ \E r \in Reqs, p \in ProductInputs, s \in StageInputs, o \in FieldNames,
        n \in FieldNames, v \in FieldValues :
        started < MaxStoreOps /\ update_variable(r, p, s, o, n, v, FALSE, NoName)
  \/ \E r \in Reqs : UvName(r)
  \/ \E r \in Reqs : UvValue(r)
  \/ \E r \in Reqs : Busy(r)

StoreSpec == Init /\ [][StoreNext]_vars

\* The registration of uploads under concurrent requests.
UploadNext ==
  \/ Tick
  \/ \E r \in Reqs, p \in RegProducts, s \in RegStages, f \in FileInputs,
        c \in Contents :
        started < MaxUploadOps /\ upload_file(r, p, s, f, c)
  \/ \E r \in Reqs : UpSave(r)
  \/ \E r \in Reqs : UpRegister(r)
  \/ \E r \in Reqs, ok \in BOOLEAN : Preview(r, ok)
  \/ \E r \in Reqs : Bind(r)
  \/ \E r \in Reqs, p \in RegProducts, s \in RegStages, f \in FileInputs :
        started < MaxUploadOps /\ delete_prn(r, p, s, f)
  \/ \E r \in Reqs, o \in RemovalOutcomes : DpFiles(r, o)
  \/ \E r \in Reqs, p \in RegProducts, s \in RegStages :
        \E rows \in SUBSET db.prns : \E order \in ListOrders(rows) :
           started < MaxUploadOps /\ list_prns(r, p, s, order)

UploadSpec == Init /\ [][UploadNext]_vars

\* Uploads and the generation of filled artifacts under concurrent requests,
\* from the state an upload of x.prn for product "a b", stage Raw leaves
\* behind (its preview having failed).
TemplateProduct == <<"a"," ","b">>
TemplatePath ==
  PrnPath(normalize_product_folder_name(TemplateProduct), "Raw", TemplateName)
InitUploaded ==
  /\ \E c \in Contents :
       fs = WriteFile({}, TemplatePath, c)
  /\ db = InsertPrn(InsertOrIgnoreProduct(EmptyDb, TemplateProduct),
                    1, "Raw", TemplateName, TemplatePath, 0)
  /\ txn = NoTxn
  /\ clock = [sec |-> 0, ms |-> 0]
  /\ req = [r \in Reqs |-> IdleReq]
  /\ started = 0

FillNext ==
  \/ Tick
  \/ \E r \in Reqs, p \in RegProducts, s \in RegStages, c \in Contents :
        started < MaxFillOps /\ upload_file(r, p, s, TemplateName, c)
  \/ \E r \in Reqs : UpSave(r)
  \/ \E r \in Reqs : UpRegister(r)
  \/ \E r \in Reqs, p \in RegProducts, s \in RegStages, b \in RegBatches,
        g \in GenInputs :
        started < MaxFillOps /\ save_fields(r, p, s, b, g[1], g[2])
  \/ \E r \in Reqs : SfUpsert(r)
  \/ \E r \in Reqs, p \in RegProducts, s \in RegStages, o \in FieldNames,
        n \in FieldNames, v \in RegValues \cup {Null}, g \in GenInputs :
        started < MaxFillOps /\ update_variable(r, p, s, o, n, v, g[1], g[2])
  \/ \E r \in Reqs : UvName(r)
  \/ \E r \in Reqs : UvValue(r)
  \/ \E r \in Reqs : \E f \in {a.prn_filename : a \in db.prns} \cup {NoName} : UvGen(r, f)
  \/ \E r \in Reqs : GenWrite(r)
  \/ \E r \in Reqs : GenInsert(r)
  \/ \E r \in Reqs : GenRetry(r)
  \/ \E r \in Reqs, ok \in BOOLEAN : Preview(r, ok)
  \/ \E r \in Reqs : Bind(r)
  \/ \E r \in Reqs, p \in RegProducts, s \in RegStages, f \in FileInputs :
        started < MaxFillOps /\ delete_prn(r, p, s, f)
  \/ \E r \in Reqs, o \in RemovalOutcomes : DpFiles(r, o)
  \/ \E r \in Reqs : Busy(r)

FillSpec == InitUploaded /\ [][FillNext]_vars

\* Repeated generation of filled artifacts from one template by save-fields
\* requests, from the state an upload of x.prn leaves behind.
RetryNext ==
  \/ Tick
  \/ \E r \in Reqs, p \in RegProducts, s \in RegStages, b \in { <<it>> : it \in FieldNames \X { <<"1">> } } :
        started < MaxRetryOps /\ save_fields(r, p, s, b, TRUE, TemplateName)
  \/ \E r \in Reqs : SfUpsert(r)
  \/ \E r \in Reqs : GenWrite(r)
  \/ \E r \in Reqs : GenInsert(r)
  \/ \E r \in Reqs : GenRetry(r)
  \/ \E r \in Reqs, ok \in BOOLEAN : Preview(r, ok)
  \/ \E r \in Reqs : Bind(r)
  \/ \E r \in Reqs : Busy(r)

RetrySpec == InitUploaded /\ [][RetryNext]_vars

\* The start on the database of an older version, whose variables table has
\* no stage column: the migration adds the column with the default ''.
migrate_legacy_variables(rows, cols) ==
  IF "stage" \in cols THEN rows
  ELSE { [ id |-> v.id, product_id |-> v.product_id, stage |-> "",
           field_name |-> v.field_name, field_value |-> v.field_value ] : v \in rows }

InitLegacy ==
  /\ \E rows \in { {}, { [ id |-> 1, product_id |-> 1,
                               field_name |-> <<"A">>, field_value |-> <<"1">> ] } } :
       db = [EmptyDb EXCEPT
               !.products = IF rows = {} THEN <<>> ELSE <<TemplateProduct>>,
               !.variables = migrate_legacy_variables(rows, {"id", "product_id", "field_name",
                                                             "field_value"}),
               !.varSeq = Cardinality(rows)]
  /\ txn = NoTxn
  /\ fs = {}
  /\ clock = [sec |-> 0, ms |-> 0]
  /\ req = [r \in Reqs |-> IdleReq]
  /\ started = 0

LegacySpec == InitLegacy /\ [][StoreNext]_vars

\* Every route that takes a stage, with stages that are valid, invalid,
\* missing and, in a JSON body, no text.
FormStages == { <<"r","a","w">>, <<"x">>, <<>> }
JsonStages == FormStages \cup { NonText }
PathStages == { <<"r","a","w">>, <<"x">> }
StageName == <<"A">>
StageValue == <<"1">>
StageBatch == << <<StageName, StageValue>>, << <<"A","B">>, StageValue >> >>
StageNext ==
  \/ \E r \in Reqs, p \in RegProducts \cup {StageName}, s \in FormStages, c \in Contents :
        started < MaxStageOps /\ upload_file(r, p, s, TemplateName, c)
  \/ \E r \in Reqs : UpSave(r)
  \/ \E r \in Reqs : UpRegister(r)
  \/ \E r \in Reqs, ok \in BOOLEAN : Preview(r, ok)
  \/ \E r \in Reqs : Bind(r)
  \/ \E r \in Reqs, p \in RegProducts \cup {StageName}, s \in JsonStages :
        started < MaxStageOps
        /\ save_fields(r, p, s, StageBatch, FALSE, NoName)
  \/ \E r \in Reqs : SfUpsert(r)
  \/ \E r \in Reqs, p \in RegProducts \cup {StageName}, s \in JsonStages :
        started < MaxStageOps /\ add_variable(r, p, s, StageName, StageValue)
  \/ \E r \in Reqs, p \in RegProducts, s \in JsonStages :
        started < MaxStageOps
        /\ update_variable(r, p, s, StageName, StageName, StageValue, FALSE, NoName)
  \/ \E r \in Reqs : UvValue(r)
  \/ \E r \in Reqs, p \in RegProducts, s \in JsonStages :
        started < MaxStageOps /\ delete_variable(r, p, s, StageName)
  \/ \E r \in Reqs, p \in RegProducts \cup {StageName}, s \in FormStages :
        started < MaxStageOps /\ get_product(r, p, s)
  \/ \E r \in Reqs, p \in RegProducts \cup {StageName}, s \in PathStages :
        \E rows \in SUBSET db.prns : \E order \in ListOrders(rows) :
           started < MaxStageOps /\ list_prns(r, p, s, order)
  \/ \E r \in Reqs, p \in RegProducts, s \in PathStages :
        started < MaxStageOps /\ get_prn(r, p, s, TemplateName)
  \/ \E r \in Reqs, p \in RegProducts, s \in JsonStages :
        started < MaxStageOps /\ delete_prn(r, p, s, TemplateName)
  \/ \E r \in Reqs, o \in RemovalOutcomes : DpFiles(r, o)
  \/ \E r \in Reqs : Busy(r)

StageSpec == InitUploaded /\ [][StageNext]_vars

\* The routes that create products, and those that delete records.
ProductNames == { <<"a"," ","b">>, <<" ","a"," ","b"," ">>, <<"A">>, <<" ">> }
ProductNext ==
  \/ \E r \in Reqs, p \in ProductNames :
        started < MaxProductOps /\ create_product(r, p)
  \/ \E r \in Reqs, p \in ProductNames, s \in FormStages :
        started < MaxProductOps /\ get_product(r, p, s)
  \/ \E r \in Reqs, p \in ProductNames, s \in FormStages :
        started < MaxProductOps /\ save_fields(r, p, s, StageBatch, FALSE, NoName)
  \/ \E r \in Reqs : SfUpsert(r)
  \/ \E r \in Reqs, p \in ProductNames, s \in FormStages :
        started < MaxProductOps /\ delete_variable(r, p, s, StageName)
  \/ \E r \in Reqs, p \in ProductNames, s \in FormStages, c \in Contents :
        started < MaxProductOps /\ upload_file(r, p, s, TemplateName, c)
  \/ \E r \in Reqs : UpSave(r)
  \/ \E r \in Reqs : UpRegister(r)
  \/ \E r \in Reqs, ok \in BOOLEAN : Preview(r, ok)
  \/ \E r \in Reqs : Bind(r)
  \/ \E r \in Reqs, p \in ProductNames, s \in FormStages :
        started < MaxProductOps /\ delete_prn(r, p, s, TemplateName)
  \/ \E r \in Reqs, o \in RemovalOutcomes : DpFiles(r, o)
  \/ \E r \in Reqs : Busy(r)

ProductSpec == Init /\ [][ProductNext]_vars

\* The variable routes on a store that holds variables of two products and
\* two stages, as four save-fields requests leave it.
ScopeProducts == { <<"a"," ","b">>, <<"A">> }
ScopeStages == { <<"r","a","w">>, <<" ","F","G">> }
InitScoped ==
  /\ db = UpsertVar(UpsertVar(UpsertVar(UpsertVar(
            InsertOrIgnoreProduct(InsertOrIgnoreProduct(EmptyDb, <<"a"," ","b">>), <<"A">>),
            1, "Raw", <<"A">>, <<"1">>), 1, "Raw", <<"A","B">>, <<"1">>),
            1, "FG", <<"A">>, <<"1">>), 2, "Raw", <<"A">>, <<"1">>)
  /\ txn = NoTxn
  /\ fs = {}
  /\ clock = [sec |-> 0, ms |-> 0]
  /\ req = [r \in Reqs |-> IdleReq]
  /\ started = 0

ScopeNext ==
  \/ \E r \in Reqs, p \in ScopeProducts, s \in ScopeStages, b \in RegBatches :
        started < MaxScopeOps /\ save_fields(r, p, s, b, FALSE, NoName)
  \/ \E r \in Reqs : SfUpsert(r)
  \/ \E r \in Reqs, p \in ScopeProducts, s \in ScopeStages, o \in FieldNames,
        n \in FieldNames, v \in RegValues :
        started < MaxScopeOps /\ update_variable(r, p, s, o, n, v, FALSE, NoName)
  \/ \E r \in Reqs : UvName(r)
  \/ \E r \in Reqs : UvValue(r)
  \/ \E r \in Reqs, p \in ScopeProducts, s \in ScopeStages, n \in FieldNames :
        started < MaxScopeOps /\ delete_variable(r, p, s, n)
  \/ \E r \in Reqs : Busy(r)

ScopeSpec == InitScoped /\ [][ScopeNext]_vars

\* Uploads of one file name for one product and stage, one after the other
\* (each request is answered before the next one starts).
SameNameNext ==
  \/ Tick
  \/ \E c \in Contents :
        started < MaxSameOps /\ upload_file(1, TemplateProduct, <<"r","a","w">>, TemplateName, c)
  \/ UpSave(1)
  \/ UpRegister(1)
  \/ \E ok \in BOOLEAN : Preview(1, ok)
  \/ Bind(1)

SameNameSpec == Init /\ [][SameNameNext]_vars

\* Uploads and deletions, one request after the other, for two products whose
\* names have the same upload folder name.
FolderProducts == { <<"a"," ","b">>, <<"a","_","b">> }
FolderNext ==
  \/ Tick
  \/ \E p \in FolderProducts, f \in FileInputs, c \in Contents :
        started < MaxFolderOps /\ upload_file(1, p, <<"r","a","w">>, f, c)
  \/ UpSave(1)
  \/ UpRegister(1)
  \/ \E ok \in BOOLEAN : Preview(1, ok)
  \/ Bind(1)
  \/ \E p \in FolderProducts, f \in FileInputs :
        started < MaxFolderOps /\ delete_prn(1, p, <<"r","a","w">>, f)
  \/ \E o \in RemovalOutcomes : DpFiles(1, o)

FolderSpec == Init /\ [][FolderNext]_vars

(* ------------------------- the pure functions ------------------------- *)
\* A call of a function outside any request: the arguments are in the frame
\* from the start, the step computes the result.
Call(kind, text, d) ==
  [IdleReq EXCEPT !.kind = kind, !.pc = "call", !.text = text, !.variables = d]

CallInit(frames) ==
  /\ db = EmptyDb
  /\ txn = NoTxn
  /\ fs = {}
  /\ clock = [sec |-> 0, ms |-> 0]
  /\ started = 0
  /\ \E f \in frames : req = [r \in Reqs |-> IF r = 1 THEN f ELSE IdleReq]

Returned(r, kind) == req[r].kind = kind /\ req[r].pc = "return"

\* _fill_prn_content(prn_content, variables)
FillCall(r) ==
  /\ req[r].kind = "_fill_prn_content"
  /\ req[r].pc = "call"
  /\ req' = [req EXCEPT ![r].pc = "return",
                        ![r].result = _fill_prn_content(req[r].text, req[r].variables)]
  /\ UNCHANGED <<db, txn, fs, clock, started>>

RenderInit ==
  LET names == { <<"A">>, <<"B">>, <<"A","B">>, <<"A","B","C","D">> }
      values == { <<"1">>, <<"2">>, Null, <<"\\","n">>, <<"\\","d">>,
                  <<"{","A","}">>, <<"{","B","}">> }
      items == names \X values
      maps == {<<>>} \cup { <<it>> : it \in items } \cup
              { <<p[1], p[2]>> : p \in { p \in items \X items : p[1][1] # p[2][1] } }
      templates ==
        { <<"{","A","B","}","-","{","A","}">>, <<"{","A","}","{","B","}">>,
          <<"{","A","B","C","}">>, <<"x","{","A","}","{","A","}">>, <<"x">>,
          <<"{","A","B","C","D","}","{","b","}">> }
  IN CallInit({ Call("_fill_prn_content", t, d) : t \in templates, d \in maps })
RenderNext == \E r \in Reqs : FillCall(r)
RenderSpec == RenderInit /\ [][RenderNext]_vars

\* stage_folder_name(stage_raw): the aliases of the code, the spellings that
\* are no alias, each in three letter cases and four paddings.
StageBases ==
  RawAliases \cup SfgAliases \cup FgAliases \cup
  { <<>>, <<"x">>, <<"r","a","w","-","m","a","t","e","r","i","a","l">>,
    <<"r","a","w"," "," ","m","a","t","e","r","i","a","l">>,
    <<"s","e","m","i"," ","f","i","n","i","s","h","e","d"," ","g","o","o","d">>,
    <<"f","i","n","i","s","h","e","d","g","o","o","d">>,
    <<"f","g","s">>, <<"r","a","w","s","f","g">> }
\* A text in lower case, in upper case and capitalized, bare and padded.
StageVariants(b) ==
  LET UpperChar(c) ==
        IF \E i \in 1..26 : LowerCase[i] = c
        THEN UpperCase[CHOOSE i \in 1..26 : LowerCase[i] = c]
        ELSE c
      upper == [i \in 1..Len(b) |-> UpperChar(b[i])]
      capitalized == [i \in 1..Len(b) |-> IF i = 1 THEN UpperChar(b[i]) ELSE b[i]]
      paddings == { <<<<>>, <<>>>>, <<<<" ">>, <<>>>>, <<<<>>, <<" ">>>>,
                    <<<<"\t">>, <<" ","\n">>>> }
  IN { p[1] \o s \o p[2] : p \in paddings, s \in {b, upper, capitalized} }

NormalizeCall(r) ==
  /\ req[r].kind = "stage_folder_name"
  /\ req[r].pc = "call"
  /\ req' = [req EXCEPT ![r].pc = "return",
                        ![r].stage = stage_folder_name(req[r].text)]
  /\ UNCHANGED <<db, txn, fs, clock, started>>

NormalizeInit == CallInit({ Call("stage_folder_name", t, <<>>) :
              t \in UNION { StageVariants(b) : b \in StageBases } })
NormalizeNext == \E r \in Reqs : NormalizeCall(r)
NormalizeSpec == NormalizeInit /\ [][NormalizeNext]_vars

\* extract_prn_columns: texts of up to three pieces.
Pieces ==
  { <<"{","B","}">>, <<"{","A","}">>, <<"{","a","}">>, <<"{","A","_","1","}">>,
    <<"{","A","B","}">>, <<"{","A"," ","B","}">>, <<"{","}">>, <<"{">>, <<"}">>,
    <<"A">>, <<" ">> }

ExtractCall(r) ==
  /\ req[r].kind = "extract_prn_columns"
  /\ req[r].pc = "call"
  /\ req' = [req EXCEPT ![r].pc = "return",
                        ![r].result = extract_prn_columns(req[r].text)]
  /\ UNCHANGED <<db, txn, fs, clock, started>>

ExtractInit ==
  LET texts == {<<>>} \cup Pieces \cup { a \o b : a \in Pieces, b \in Pieces }
               \cup { a \o b \o c : a \in Pieces, b \in Pieces, c \in Pieces }
  IN CallInit({ Call("extract_prn_columns", t, <<>>) : t \in texts })
ExtractNext == \E r \in Reqs : ExtractCall(r)
ExtractSpec == ExtractInit /\ [][ExtractNext]_vars

(* ---------------------- the variable store: properties ---------------- *)
\* C1: after any sequence of save-fields, add-variable, update-variable and
\* delete-variable requests the store, committed or as seen inside an open
\* transaction, holds at most one record per (product, stage, field_name).
C1_OneRecordPerKey ==
  \A d \in {db, txn.work} : \A v \in d.variables : \A w \in d.variables :
     (v.product_id = w.product_id /\ v.stage = w.stage /\ v.field_name = w.field_name)
        => v = w

\* A save-fields request has written a key that was stored with another
\* value: the same record now carries the new value in the request's view.
C1_Witness ==
  \E r \in Reqs :
     /\ req[r].kind = "save_fields" /\ txn.owner = r
     /\ Cardinality(txn.work.variables) = Cardinality(db.variables)
     /\ \E v \in db.variables : \E w \in txn.work.variables :
          /\ w.id = v.id /\ w.field_name = v.field_name
          /\ w.field_value # v.field_value

\* C5: an update-variable request that renames a stored variable to the name
\* of another stored variable of the same product and stage answers 409 and
\* changes nothing, whatever new value it carries.
C5_RenameConflict ==
  [][\A r \in Reqs, p \in ProductInputs, s \in StageInputs, o \in FieldNames,
        n \in FieldNames, v \in FieldValues :
        ( /\ n # o
          /\ req'[r].kind = "update_variable" /\ started' = started + 1
          /\ \E a \in db.variables : \E b \in db.variables :
               /\ a.field_name = o /\ b.field_name = n
               /\ a.product_id = b.product_id /\ a.stage = b.stage
               /\ a.stage = stage_folder_name(s)
               /\ a.product_id \in 1..Len(db.products)
               /\ db.products[a.product_id] = Strip(p)
          /\ update_variable(r, p, s, o, n, v, FALSE, NoName) )
        => (req'[r].status = 409 /\ req'[r].pc = "done" /\ db' = db /\ txn' = txn)
    ]_vars

\* A rename was refused while both variables are stored.
C5_Witness ==
  \E r \in Reqs :
     /\ req[r].kind = "update_variable" /\ req[r].status = 409
     /\ \E a \in db.variables : \E b \in db.variables :
          a.field_name # b.field_name /\ a.product_id = b.product_id /\ a.stage = b.stage

\* C6: at the commit of a save-fields batch every key of the batch has
\* exactly one record, with the batch's value; if the store already held the
\* batch the records are unchanged, and if it already held the batch's keys
\* the records are updated in place (same number of records, same ids).
C6_UpsertIdempotent ==
  [][\A r \in Reqs :
       ( /\ req[r].pc = "sf_upsert" /\ req[r].i = Len(req[r].variables)
         /\ req'[r] # req[r] /\ req'[r].status # 500 )
       => LET q == req[r]
              rows(d, j) == { x \in d.variables :
                                /\ x.product_id = q.pid /\ x.stage = q.stage
                                /\ x.field_name = q.variables[j][1] }
              all == 1..Len(q.variables)
          IN /\ \A j \in all :
                  /\ Cardinality(rows(db', j)) = 1
                  /\ \A x \in rows(db', j) : x.field_value = q.variables[j][2]
             /\ (\A j \in all : \E x \in rows(db, j) : x.field_value = q.variables[j][2])
                  => db'.variables = db.variables
             /\ (\A j \in all : rows(db, j) # {})
                  => /\ Cardinality(db'.variables) = Cardinality(db.variables)
                     /\ { x.id : x \in db'.variables } = { x.id : x \in db.variables }
    ]_vars

\* A batch of two fields is being applied to a store that already holds its
\* first field with the same value: the request's view equals the store.
C6_Witness ==
  \E r \in Reqs :
     /\ req[r].kind = "save_fields" /\ req[r].pc = "sf_upsert" /\ req[r].i = 2
     /\ txn.owner = r
     /\ txn.work.variables = db.variables
     /\ \E x \in db.variables :
          x.field_name = req[r].variables[1][1] /\ x.field_value = req[r].variables[1][2]

\* C7: a step of the save-fields loop either leaves the committed store as it
\* is or commits the whole batch; a request that fails in the loop leaves the
\* committed store as it is and nothing of its batch pending.
C7_BatchAllOrNothing ==
  [][\A r \in Reqs :
       (req[r].pc = "sf_upsert" /\ req'[r] # req[r])
       => LET q == req[r] IN
          /\ \/ db' = db
             \/ \A j \in 1..Len(q.variables) :
                  \E x \in db'.variables :
                     /\ x.product_id = q.pid /\ x.stage = q.stage
                     /\ x.field_name = q.variables[j][1]
                     /\ x.field_value = q.variables[j][2]
          /\ req'[r].status = 500 => (db' = db /\ txn'.owner # r)
    ]_vars

\* The first field of a batch is pending and the second cannot be written.
C7_Witness ==
  \E r \in Reqs :
     /\ req[r].pc = "sf_upsert" /\ req[r].i = 2 /\ txn.owner = r
     /\ txn.work.variables # db.variables
     /\ ~Bindable(req[r].variables[2][2])

(* ---------------------- the artifact registry: properties ------------- *)
\* C2: an upload never changes the content stored for a registered artifact
\* when it saves its file, and every upload that saved its file ends with a
\* record of its own (so two uploads of one file name leave two records,
\* each with the content uploaded for it).
C2_SameNameUploads ==
  [][\A r \in Reqs :
       /\ (req[r].pc = "up_save" /\ req'[r].pc = "up_register")
            => \A a \in db.prns :
                 FileExists(fs, a.prn_path)
                    => ReadFile(fs', a.prn_path) = ReadFile(fs, a.prn_path)
       /\ (req[r].pc = "up_register" /\ req'[r] # req[r])
            => /\ req'[r].pc = "preview"
               /\ Cardinality(db'.prns) = Cardinality(db.prns) + 1
    ]_vars

\* C3: the generation of a filled artifact never changes the content stored
\* for an artifact that is already registered.
C3_FilledNeverOverwrites ==
  [][\A r \in Reqs :
       (req[r].pc \in {"gen_write", "gen_retry"} /\ req'[r] # req[r])
       => \A a \in db.prns :
            FileExists(fs, a.prn_path)
               => ReadFile(fs', a.prn_path) = ReadFile(fs, a.prn_path)
    ]_vars

\* C4: two uploads in flight never hold the same final file name, and when an
\* upload's record is committed the file at the record's path holds the
\* content that upload carried.
C4_ConcurrentUploads ==
  [][\A r \in Reqs :
       (req[r].pc = "up_register" /\ req'[r].pc = "preview")
       => /\ FileExists(fs', req[r].path)
          /\ ReadFile(fs', req[r].path) = req[r].content
          /\ \A o \in Reqs \ {r} :
               req[o].pc \in {"up_save", "up_register", "preview", "bind"}
                  => req[o].path # req[r].path
    ]_vars

\* C8: the preview is requested once per request; when it fails the request
\* is answered 200 with the artifact's name, the registry is left as it is
\* (no preview is bound), and the record the request inserted was inserted
\* with no preview path.
C8_PreviewFailureIsolated ==
  [][\A r \in Reqs :
       /\ (req[r].pc # "preview" /\ req'[r].pc = "preview")
            => \E a \in db'.prns :
                 a.id = req'[r].rowid /\ a.preview_path = NoPath
       /\ (req[r].pc = "preview" /\ req'[r] # req[r])
            => /\ req'[r].previews = 1
               /\ req'[r].pc \in {"bind", "done"}
               /\ req'[r].pc = "done"
                    => /\ req'[r].status = 200
                       /\ req'[r].filename = req[r].filename
                       /\ db' = db
       /\ req'[r].previews <= 1
    ]_vars

\* An upload and a generation of a filled artifact were both answered after
\* a failed preview, and their records have no preview path.
C8_Witness ==
  \E r \in Reqs : \E o \in Reqs :
     /\ req[r].kind = "upload" /\ req[r].pc = "done" /\ req[r].status = 200
     /\ req[r].previews = 1
     /\ req[o].filled /\ req[o].pc = "done" /\ req[o].status = 200
     /\ req[o].previews = 1
     /\ \E a \in db.prns : \E b \in db.prns :
          /\ a.prn_filename = req[r].filename /\ a.preview_path = NoPath
          /\ b.prn_filename = req[o].filename /\ b.preview_path = NoPath

\* C9: when the preview call starts the artifact's record is in the committed
\* registry, and while the call is in progress the request holds no open
\* transaction.
C9_CommittedBeforePreview ==
  [][\A r \in Reqs :
       req'[r].pc = "preview"
       => /\ txn'.owner # r
          /\ req[r].pc # "preview"
               => \E a \in db'.prns :
                    /\ a.id = req'[r].rowid
                    /\ a.prn_filename = req'[r].filename
                    /\ a.prn_path = req'[r].path
    ]_vars

\* A preview call is in progress for a filled artifact while another request
\* holds the write lock.
C9_Witness ==
  \E r \in Reqs :
     /\ req[r].pc = "preview" /\ req[r].kind # "upload"
     /\ txn.owner \in Reqs \ {r}

\* C10: binding the preview of an artifact whose record has been deleted
\* changes no registry record, and the request is answered 200.
C10_BindAfterDelete ==
  [][\A r \in Reqs :
       ( /\ req[r].pc = "bind" /\ req'[r] # req[r]
         /\ ~\E a \in db.prns : a.id = req[r].rowid )
       => (db'.prns = db.prns /\ req'[r].status = 200)
    ]_vars

\* C11: a delete-prn request for a registered file name commits the removal
\* of the record before any file is touched, and is answered 200 whatever
\* the removal of the files does; a delete-prn request for a file name not
\* registered for the product and stage is answered 404 and changes nothing.
C11_DeleteRecordFirst ==
  [][\A r \in Reqs :
       /\ \A p \in RegProducts, s \in RegStages, f \in FileInputs :
            ( /\ req'[r].kind = "delete_prn" /\ started' = started + 1
              /\ delete_prn(r, p, s, f) )
            => LET registered ==
                     { a \in db.prns :
                         /\ a.prn_filename = secure_filename(f)
                         /\ a.stage = stage_folder_name(s)
                         /\ a.product_id \in 1..Len(db.products)
                         /\ db.products[a.product_id] = Strip(p) }
               IN IF registered # {}
                  THEN /\ req'[r].pc = "dp_files"
                       /\ db'.prns = db.prns \ registered
                       /\ txn'.owner # r
                       /\ fs' = fs
                  ELSE /\ req'[r].pc = "done" /\ req'[r].status = 404
                       /\ db' = db /\ fs' = fs
       /\ (req[r].pc = "dp_files" /\ req'[r] # req[r])
            => /\ req'[r].pc = "done" /\ req'[r].status = 200
               /\ db' = db
               /\ ~\E a \in db.prns : a.id = req[r].rowid
    ]_vars

\* A delete-prn request was answered 200 with the record gone and the
\* template file still in the folder (its removal failed).
C11_Witness ==
  \E r \in Reqs :
     /\ req[r].kind = "delete_prn" /\ req[r].pc = "done" /\ req[r].status = 200
     /\ ~\E a \in db.prns : a.prn_filename = req[r].filename
     /\ FileExists(fs, PrnPath(normalize_product_folder_name(TemplateProduct),
                               "Raw", req[r].filename))

\* C12: a listing names the artifacts of the product and stage with the one
\* registered later (the greater id) before the one registered earlier.
C12_ListMostRecentFirst ==
  \A r \in Reqs :
     req[r].kind = "list_prns"
        => \A i \in DOMAIN req[r].listing : \A j \in DOMAIN req[r].listing :
              i < j => req[r].listing[i] > req[r].listing[j]

\* C13: a generation whose retry name is refused as well gives up, and the
\* request is then answered with a conflict.
C13_ExhaustedRetryIsConflict ==
  [][\A r \in Reqs :
       (req[r].pc = "gen_retry" /\ req'[r].pc = "done")
       => req'[r].status = 409
    ]_vars

\* C14: the filled text written by a generation is the template rendered with
\* every variable the store holds for the product and stage at that moment,
\* whether or not the current request names it.
C14_FilledFromStore ==
  [][\A r \in Reqs :
       (req[r].pc = "gen_write" /\ req'[r].pc = "gen_insert")
       => LET q == req[r]
              src_path == PrnPath(ProductDir(q), q.stage, q.src)
          IN req'[r].content =
               _fill_prn_content(ReadFile(fs, src_path),
                                 RowsToDict(StageVars(db, q.pid, q.stage)))
    ]_vars

\* C15: the rendered text is the template with every token {F} of a bound
\* field F replaced by the value of F (nothing for null), every other character
\* kept, whatever other fields are bound.
C15_RenderExact ==
  \A r \in Reqs :
    Returned(r, "_fill_prn_content")
    => LET t == req[r].text
           d == req[r].variables
           Bound(i) ==
             { k \in 1..Len(d) : IsPrefixAt(<<"{">> \o d[k][1] \o <<"}">>, t, i) }
           RECURSIVE Expect(_)
           Expect(i) ==
             IF i > Len(t) THEN <<>>
             ELSE IF Bound(i) # {}
                  THEN LET k == CHOOSE k \in Bound(i) : TRUE
                       IN ValueText(d[k][2]) \o Expect(i + Len(d[k][1]) + 2)
                  ELSE <<t[i]>> \o Expect(i + 1)
       IN req[r].result = Expect(1)

\* C16: the rendered text is the same for every order of the items of the
\* map; {A: 1, AB: 2} renders "{AB}-{A}" as "2-1"; fields AB and ABCD leave
\* the token {ABC} as it is.
C16_RenderOrderFree ==
  \A r \in Reqs :
    Returned(r, "_fill_prn_content")
    => LET t == req[r].text
           d == req[r].variables
           reversed == [i \in 1..Len(d) |-> d[Len(d) + 1 - i]]
           items == { d[i] : i \in 1..Len(d) }
       IN /\ req[r].result = _fill_prn_content(t, reversed)
          /\ (t = <<"{","A","B","}","-","{","A","}">>
              /\ items = { <<<<"A">>, <<"1">>>>, <<<<"A","B">>, <<"2">>>> })
             => req[r].result = <<"2","-","1">>
          /\ (t = <<"{","A","B","C","}">>
              /\ \A it \in items : it[1] \in { <<"A","B">>, <<"A","B","C","D">> })
             => req[r].result = t

\* C17, as stated: the documented aliases (raw, raw material, raw_material;
\* sfg, semi finished, semi-finished; fg, finished good, finished-good), in any
\* letter case and padding, give their canonical stage, which covers the
\* canonical forms Raw, SFG and FG; every other text is invalid.
C17_DocumentedAliasesOnly ==
  \A r \in Reqs : \A b \in StageBases :
    (Returned(r, "stage_folder_name") /\ req[r].text \in StageVariants(b))
    => req[r].stage =
         IF b \in { <<"r","a","w">>, <<"r","a","w"," ","m","a","t","e","r","i","a","l">>,
                    <<"r","a","w","_","m","a","t","e","r","i","a","l">> } THEN "Raw"
         ELSE IF b \in { <<"s","f","g">>, <<"s","e","m","i"," ","f","i","n","i","s","h","e","d">>,
                         <<"s","e","m","i","-","f","i","n","i","s","h","e","d">> } THEN "SFG"
         ELSE IF b \in { <<"f","g">>, <<"f","i","n","i","s","h","e","d"," ","g","o","o","d">>,
                         <<"f","i","n","i","s","h","e","d","-","g","o","o","d">> } THEN "FG"
         ELSE ""

\* C17, amended: the aliases are those of the code, which has rawmaterial,
\* semi, semi_finished, semi_finished_good, semifinished, finished and
\* finished_good besides the documented ones; in any letter case and padding
\* they give their canonical stage, and every other text is invalid.
C17_AliasesOfTheCode ==
  \A r \in Reqs : \A b \in StageBases :
    (Returned(r, "stage_folder_name") /\ req[r].text \in StageVariants(b))
    => req[r].stage =
         IF b \in RawAliases THEN "Raw"
         ELSE IF b \in SfgAliases THEN "SFG"
         ELSE IF b \in FgAliases THEN "FG"
         ELSE ""

\* An alias outside the documented ones, in upper case and padded, was accepted.
C17_Witness ==
  \E r \in Reqs :
    /\ Returned(r, "stage_folder_name")
    /\ req[r].text = <<"\t","S","E","M","I"," ","\n">>
    /\ req[r].stage = "SFG"

\* C20: the list returned for a text holds exactly the names F, one or more
\* letters, digits or underscores, whose token {F} occurs in the text, each
\* once, in ascending order; it is empty when there is no token.
C20_ExtractSortedSet ==
  \A r \in Reqs :
    Returned(r, "extract_prn_columns")
    => LET t == req[r].text
           out == req[r].result
           names ==
             { SubSeq(t, i + 1, j - 1) : i \in 1..Len(t), j \in 1..Len(t) }
           tokens ==
             { n \in names :
                 /\ n # <<>>
                 /\ \A k \in 1..Len(n) : IsWord(n[k])
                 /\ \E i \in 1..Len(t) :
                      IsPrefixAt(<<"{">> \o n \o <<"}">>, t, i) }
       IN /\ { out[k] : k \in 1..Len(out) } = tokens
          /\ \A k \in 1..(Len(out) - 1) : LexLess(out[k], out[k + 1])

\* A text with a repeated token and two names out of order was scanned.
C20_Witness ==
  \E r \in Reqs :
    /\ Returned(r, "extract_prn_columns")
    /\ req[r].text = <<"{","B","}","{","A","}","{","B","}">>
    /\ req[r].result = << <<"A">>, <<"B">> >>

\* C18: a request of any of the nine routes whose stage is invalid or missing
\* is answered with a client error, and the products, variables, artifacts
\* and files are as before.
C18_InvalidStageRejected ==
  [][\A r \in Reqs, p \in RegProducts \cup {StageName} :
     \A s \in { s \in JsonStages : StageRaises(s) \/ stage_folder_name(s) = "" } :
       ( /\ started' = started + 1
         /\ req'[r].kind # "none"
         /\ \/ \E c \in Contents :
                 s \in FormStages /\ upload_file(r, p, s, TemplateName, c)
            \/ save_fields(r, p, s, StageBatch, FALSE, NoName)
            \/ add_variable(r, p, s, StageName, StageValue)
            \/ update_variable(r, p, s, StageName, StageName, StageValue, FALSE, NoName)
            \/ delete_variable(r, p, s, StageName)
            \/ (s \in FormStages /\ get_product(r, p, s))
            \/ (s \in PathStages /\ list_prns(r, p, s, <<>>))
            \/ (s \in PathStages /\ get_prn(r, p, s, TemplateName))
            \/ delete_prn(r, p, s, TemplateName) )
       => /\ req'[r].pc = "done"
          /\ req'[r].status = 400
          /\ db' = db
          /\ fs' = fs
    ]_vars

\* C19: every stored variable and every stored artifact carries one of the
\* stages Raw, SFG, FG.
C19_CanonicalStages ==
  /\ \A v \in db.variables : v.stage \in ALLOWED_STAGES
  /\ \A a \in db.prns : a.stage \in ALLOWED_STAGES

\* C21: a step of an update-variable request either leaves the committed
\* store as it is, or commits the variable with the new name and, when the
\* request carries a value, the new value, every other variable untouched; a
\* request that keeps the name never changes it.
C21_NameAndValueTogether ==
  [][\A r \in Reqs :
       ( /\ req[r].kind = "update_variable"
         /\ req[r].pc \in {"uv_name", "uv_value"}
         /\ req'[r] # req[r] )
       => LET q == req[r]
              before == { v \in db.variables : v.id = q.var_id }
              after == { v \in db'.variables : v.id = q.var_id }
          IN /\ \/ db' = db
                \/ /\ \A a \in after :
                        /\ q.new # q.old => a.field_name = q.new
                        /\ q.newval # Null => a.field_value = q.newval
                   /\ { v \in db'.variables : v.id # q.var_id }
                        = { v \in db.variables : v.id # q.var_id }
                   /\ before # {} /\ after # {}
             /\ q.new = q.old
                => \A b \in before : \A a \in after : a.field_name = b.field_name
    ]_vars

\* A request that carries a new name and a new value has renamed the
\* variable in its own transaction and has not committed yet.
C21_Witness ==
  \E r \in Reqs :
    /\ req[r].kind = "update_variable" /\ req[r].pc = "uv_value"
    /\ req[r].new # req[r].old /\ req[r].newval \notin {Null, Unbindable}
    /\ txn.owner = r
    /\ \E v \in txn.work.variables : v.id = req[r].var_id /\ v.field_name = req[r].new
    /\ \E v \in db.variables : v.id = req[r].var_id /\ v.field_name = req[r].old

\* C22: a save-fields, add-variable, get-product or list-prns request with a
\* valid stage that names a product not yet known, served while no other
\* request holds the database, is not refused and leaves exactly one product
\* with that name; so does the registration step of an upload.
C22_ImplicitProduct ==
  [][\A r \in Reqs, p \in RegProducts \cup {StageName} :
       /\ ( /\ started' = started + 1
            /\ req'[r].kind \in {"save_fields", "add_variable", "get_product", "list_prns"}
            /\ ProductId(db.products, p) = 0
            /\ txn.owner = 0
            /\ \/ save_fields(r, p, <<"r","a","w">>, StageBatch, FALSE, NoName)
               \/ add_variable(r, p, <<"r","a","w">>, StageName, StageValue)
               \/ get_product(r, p, <<"r","a","w">>)
               \/ list_prns(r, p, <<"r","a","w">>, <<>>) )
          => /\ req'[r].status \in {0, 200}
             /\ Cardinality({ i \in DOMAIN db'.products : db'.products[i] = p }) = 1
       /\ ( /\ req[r].pc = "up_register" /\ req[r].product = p
            /\ ProductId(db.products, p) = 0
            /\ txn.owner = 0
            /\ req'[r] # req[r] )
          => /\ req'[r].pc = "preview"
             /\ Cardinality({ i \in DOMAIN db'.products : db'.products[i] = p }) = 1
    ]_vars

\* C23: a create-product request that is answered 200 returns the position of
\* the name among the products, where the name occurs once; if the name was
\* known, nothing is stored; and no step removes or moves a product.
C23_CreateProductIdempotent ==
  [][/\ \A r \in Reqs, p \in ProductNames :
          ( /\ started' = started + 1
            /\ req'[r].kind = "create_product" /\ req'[r].status = 200
            /\ create_product(r, p) )
          => LET name == Strip(p) IN
             /\ { i \in DOMAIN db'.products : db'.products[i] = name } = { req'[r].pid }
             /\ ProductId(db.products, name) # 0
                => req'[r].pid = ProductId(db.products, name) /\ db' = db
     /\ Len(db'.products) >= Len(db.products)
     /\ \A i \in DOMAIN db.products : db'.products[i] = db.products[i]
    ]_vars

\* Requests served one after the other, two products created, and the last
\* request, a create-product, was answered with the id of the first product.
C23_Witness ==
  /\ req[1].kind = "create_product" /\ req[1].status = 200 /\ req[1].pid = 1
  /\ req[2].pc = "idle"
  /\ Len(db.products) = 2

\* C24: an add-variable request for a product, stage and name that already
\* have a variable leaves the store as it is and is not answered as a
\* success; with a value that can be stored, and no other request holding the
\* database, the answer is 409.
C24_DuplicateAddIsConflict ==
  [][\A r \in Reqs, p \in ProductInputs, s \in StageInputs, n \in FieldNames,
        v \in FieldValues :
        ( /\ req'[r].kind = "add_variable" /\ started' = started + 1
          /\ \E a \in db.variables :
               /\ a.field_name = Strip(n)
               /\ a.stage = stage_folder_name(s)
               /\ a.product_id = ProductId(db.products, Strip(p))
          /\ add_variable(r, p, s, n, v) )
        => /\ db' = db
           /\ req'[r].pc = "done" /\ req'[r].status # 200
           /\ (Bindable(v) /\ ~Locked(r)) => req'[r].status = 409
    ]_vars

\* An add-variable request was refused as a conflict, the variable stored.
C24_Witness ==
  \E r \in Reqs :
    /\ req[r].kind = "add_variable" /\ req[r].status = 409
    /\ db.variables # {}

\* C25: a delete-variable request leaves every artifact record and every
\* file as it is; when the named variable of the product and stage is stored
\* and no other request holds the database it removes that variable, nothing
\* else, and answers 200; when it is not stored, the answer is 404 and the
\* store is unchanged.
C25_DeleteVariableFrame ==
  [][\A r \in Reqs, p \in ProductNames, s \in FormStages :
        ( /\ req'[r].kind = "delete_variable" /\ started' = started + 1
          /\ delete_variable(r, p, s, StageName) )
        => LET pid == ProductId(db.products, Strip(p))
               st == stage_folder_name(s)
               named == { v \in db.variables :
                            /\ v.product_id = pid /\ v.stage = st
                            /\ v.field_name = StageName }
           IN /\ db'.prns = db.prns /\ db'.products = db.products /\ fs' = fs
              /\ req'[r].pc = "done"
              /\ (st # "" /\ named # {} /\ ~Locked(r))
                 => req'[r].status = 200 /\ db'.variables = db.variables \ named
              /\ (st # "" /\ (pid = 0 \/ (named = {} /\ ~Locked(r))))
                 => req'[r].status = 404 /\ db' = db
    ]_vars

\* A variable was deleted while an artifact of the same product and stage
\* and another variable are stored.
C25_Witness ==
  \E r \in Reqs :
    /\ req[r].kind = "delete_variable" /\ req[r].status = 200
    /\ \E a \in db.prns : \E v \in db.variables :
         /\ a.product_id = v.product_id /\ a.stage = v.stage
         /\ FileExists(fs, a.prn_path)

\* C26: a step of a save-fields, update-variable or delete-variable request
\* on a product and stage leaves every variable of another product or
\* another stage as it is, and a save-fields step leaves every variable of
\* its product and stage whose name is not in the batch as it is.
C26_ScopedMerge ==
  [][LET Elsewhere(d, pid, st) ==
           { v \in d.variables : v.product_id # pid \/ v.stage # st }
     IN /\ \A r \in Reqs, p \in ScopeProducts, s \in ScopeStages, n \in FieldNames :
             ( /\ req'[r].kind = "delete_variable" /\ started' = started + 1
               /\ delete_variable(r, p, s, n) )
             => LET pid == ProductId(db.products, Strip(p))
                    st == stage_folder_name(s)
                IN Elsewhere(db', pid, st) = Elsewhere(db, pid, st)
        /\ \A r \in Reqs :
             ( /\ req[r].pc \in {"sf_upsert", "uv_name", "uv_value"}
               /\ req'[r] # req[r] )
             => LET q == req[r] IN
                /\ Elsewhere(db', q.pid, q.stage) = Elsewhere(db, q.pid, q.stage)
                /\ q.pc = "sf_upsert"
                   => LET Kept(d) ==
                            { v \in d.variables :
                                /\ v.product_id = q.pid /\ v.stage = q.stage
                                /\ \A i \in 1..Len(q.variables) :
                                     q.variables[i][1] # v.field_name }
                      IN Kept(db') = Kept(db)
        /\ \A r \in Reqs :
             (req[r].pc = "idle" /\ req'[r].kind \in {"save_fields", "update_variable"})
             => db'.variables = db.variables
    ]_vars

\* A save-fields request has changed the value of A of one product and stage
\* while the other three variables are as they were.
C26_Witness ==
  \E r \in Reqs :
    /\ req[r].kind = "save_fields" /\ req[r].status = 200
    /\ \E v \in db.variables :
         v.id = 1 /\ v.field_name = <<"A">> /\ v.field_value = <<"2">>
    /\ \A i \in 2..4 : \E v \in db.variables : v.id = i /\ v.field_value = <<"1">>

\* C27: in a sequence of uploads of one file name for one product and stage,
\* no step of an upload changes the content stored for a registered artifact
\* or removes a record, and an upload that is refused has left every stored
\* content as it was.
C27_SameNameSequence ==
  [][(req[1].kind = "upload" /\ req'[1] # req[1])
       => \A a \in db.prns :
            /\ \E b \in db'.prns :
                  /\ b.id = a.id
                  /\ b.prn_filename = a.prn_filename
                  /\ b.prn_path = a.prn_path
            /\ FileExists(fs, a.prn_path)
                 => /\ FileExists(fs', a.prn_path)
                    /\ ReadFile(fs', a.prn_path) = ReadFile(fs, a.prn_path)
    ]_vars

\* C28: no two artifact records have the same storage path, whatever their
\* products, and the removal of a deleted artifact's files leaves the file
\* of every other artifact in place.
C28_DistinctPaths ==
  [][/\ \A a \in db'.prns : \A b \in db'.prns :
          a.id # b.id => a.prn_path # b.prn_path
     /\ (req[1].kind = "delete_prn" /\ req'[1] # req[1])
          => \A a \in db'.prns :
               FileExists(fs, a.prn_path)
                 => /\ FileExists(fs', a.prn_path)
                    /\ ReadFile(fs', a.prn_path) = ReadFile(fs, a.prn_path)
    ]_vars

\* C29: whenever the generation of a filled artifact adds a record to the
\* registry, the source file name has a record of the same product and stage
\* at that moment.
C29_SourceIsRegistered ==
  [][\A r \in Reqs :
       ( /\ req[r].pc \in {"gen_insert", "gen_retry"}
         /\ req'[r].pc = "preview"
         /\ db'.prns # db.prns )
       => PrnRows(db, req[r].pid, req[r].stage, req[r].src) # {}
    ]_vars

\* C30: a field value is inserted literally: the rendered text is the one
\* obtained by rendering with an inert mark in place of every value that holds
\* a brace and putting the values back afterwards, so a token {A} inside a
\* value stays as it is even when A is a bound field.
C30_ValuesStayLiteral ==
  \A r \in Reqs :
    Returned(r, "_fill_prn_content")
    => LET t == req[r].text
           d == req[r].variables
           marks == <<"#1", "#2">>
           Marked(k) == \E i \in 1..Len(d[k][2]) : d[k][2][i] = "{"
           inert == [k \in 1..Len(d) |->
                       IF Marked(k) THEN <<d[k][1], <<marks[k]>>>> ELSE d[k]]
           out == _fill_prn_content(t, inert)
           RECURSIVE PutBack(_)
           PutBack(i) ==
             IF i > Len(out) THEN <<>>
             ELSE (IF \E k \in 1..Len(d) : Marked(k) /\ out[i] = marks[k]
                   THEN d[CHOOSE k \in 1..Len(d) : Marked(k) /\ out[i] = marks[k]][2]
                   ELSE <<out[i]>>) \o PutBack(i + 1)
       IN req[r].result = PutBack(1)

=============================================================================
